---- MODULE Spec2Model ----
(***************************************************************************)
(* Model of the Lumira conversation orchestrator (project/main.py): the    *)
(* dialog state and its normalisation, the progress-command parser and the *)
(* intent router process_user_message.                                     *)
(*                                                                         *)
(* Python values are tagged pairs <<tag, payload>>: the tag is compared    *)
(* first, so values of different Python types are simply unequal.          *)
(* A str is a sequence of characters (one-character strings; a Cyrillic    *)
(* letter is written by its code point, "U+0434"); a dict is the sequence  *)
(* of its <<key, value>> items in insertion order; a list is the sequence  *)
(* of its elements.                                                        *)
(***************************************************************************)
EXTENDS Integers, Sequences, FiniteSets, TLC

VARIABLES
    state,      \* main.py:234,247  the DialogState the dialog loop carries from turn to turn
    results,    \* sqlite_store.py:25-33  rows of test_results, oldest first
    turn,       \* the last turn: the input, the reply, the calls made and the rows saved
    exam_topic, \* history variable: the topic label of the exam that installed current_test
    arg,        \* the arguments of a single function call
    ret,        \* its result (NotCalled before the call)
    ret2,       \* the result of applying normalize_state to ret
    dialogs,    \* sqlite_store.py:34-41  rows of dialogs, by ascending id
    dialog_messages, \* sqlite_store.py:42-50  rows of dialog_messages, by ascending id
    sqlite_sequence, \* sqlite_store.py:36  the largest id AUTOINCREMENT has given a dialog
    requests    \* the HTTP requests received so far and where each has got to

vars == <<state, results, turn, exam_topic, arg, ret, ret2,
          dialogs, dialog_messages, sqlite_sequence, requests>>

\* the database of the web application and its requests
web == <<dialogs, dialog_messages, sqlite_sequence, requests>>

\* the console program (main.py:227-249) runs without the web application
NoWeb ==
    /\ dialogs = <<>>
    /\ dialog_messages = <<>>
    /\ sqlite_sequence = 0
    /\ requests = <<>>

(***************************** Python values *******************************)

PyNone == <<"none", 0>>
PyBool(b) == <<"bool", b>>
PyInt(n) == <<"int", n>>
PyStr(s) == <<"str", s>>
PyList(l) == <<"list", l>>
PyDict(items) == <<"dict", items>>

\* an exception propagating out of a call
Raised(e) == <<"raise", e>>
IsRaised(v) == v[1] = "raise"

\* HTTPException(status_code, detail)
HTTPException(status_code, detail) == Raised(<<status_code, detail>>)

NotCalled == <<"notcalled", 0>>

IsDict(v) == v[1] = "dict"

\* bool(v): Python truth value
Truthy(v) ==
    CASE v[1] = "none" -> FALSE
      [] v[1] = "bool" -> v[2]
      [] v[1] = "int" -> v[2] # 0
      [] OTHER -> Len(v[2]) > 0

\* k in d, d[k] and d[k] = v for a dict d
DictHas(d, k) == \E i \in 1..Len(d[2]) : d[2][i][1] = k
DictIndex(d, k) == CHOOSE i \in 1..Len(d[2]) : d[2][i][1] = k
DictGet(d, k) == d[2][DictIndex(d, k)][2]
DictSet(d, k, v) ==
    IF DictHas(d, k)
    THEN PyDict([d[2] EXCEPT ![DictIndex(d, k)] = <<k, v>>])
    ELSE PyDict(Append(d[2], <<k, v>>))
\* d.get(k)
DictGetOrNone(d, k) == IF DictHas(d, k) THEN DictGet(d, k) ELSE PyNone

(******************************* str methods ******************************)

UpperChars == <<"A", "B", "C", "D", "E", "F", "G", "H", "I", "J", "K", "L", "M",
                "N", "O", "P", "Q", "R", "S", "T", "U", "V", "W", "X", "Y", "Z",
                "U+0410", "U+0413", "U+0414", "U+0415", "U+041B", "U+041D",
                "U+041E", "U+041F", "U+0422", "U+0429", "U+042F", "U+0401">>
LowerChars == <<"a", "b", "c", "d", "e", "f", "g", "h", "i", "j", "k", "l", "m",
                "n", "o", "p", "q", "r", "s", "t", "u", "v", "w", "x", "y", "z",
                "U+0430", "U+0433", "U+0434", "U+0435", "U+043B", "U+043D",
                "U+043E", "U+043F", "U+0442", "U+0449", "U+044F", "U+0451">>
Whitespace == {" ", "\t", "\n"}
Digits == <<"0", "1", "2", "3", "4", "5", "6", "7", "8", "9">>

IndexIn(seq, c) == CHOOSE i \in 1..Len(seq) : seq[i] = c
Occurs(seq, c) == \E i \in 1..Len(seq) : seq[i] = c

LowerChar(c) == IF Occurs(UpperChars, c) THEN LowerChars[IndexIn(UpperChars, c)] ELSE c
UpperChar(c) == IF Occurs(LowerChars, c) THEN UpperChars[IndexIn(LowerChars, c)] ELSE c

\* s.lower(), s.upper()
lower(s) == [i \in 1..Len(s) |-> LowerChar(s[i])]
upper(s) == [i \in 1..Len(s) |-> UpperChar(s[i])]

RECURSIVE lstrip(_)
lstrip(s) == IF s # <<>> /\ s[1] \in Whitespace THEN lstrip(Tail(s)) ELSE s
RECURSIVE rstrip(_)
rstrip(s) ==
    IF s # <<>> /\ s[Len(s)] \in Whitespace THEN rstrip(SubSeq(s, 1, Len(s) - 1)) ELSE s
\* s.strip()
strip(s) == rstrip(lstrip(s))

\* s.startswith(p)
startswith(s, p) == Len(s) >= Len(p) /\ SubSeq(s, 1, Len(p)) = p

\* p in s, for two str
IsSubstring(p, s) ==
    \E i \in 0..(Len(s) - Len(p)) : SubSeq(s, i + 1, i + Len(p)) = p

\* the length of the first whitespace-free run of s
RECURSIVE TokenLen(_)
TokenLen(s) == IF s = <<>> \/ s[1] \in Whitespace THEN 0 ELSE 1 + TokenLen(Tail(s))

\* s.split(maxsplit=1): the first token, and the rest after the whitespace that
\* follows it (trailing whitespace kept) when that rest is not empty
split_maxsplit1(s) ==
    LET t == lstrip(s)
        n == TokenLen(t)
        rest == lstrip(SubSeq(t, n + 1, Len(t)))
    IN  IF t = <<>> THEN <<>>
        ELSE IF rest = <<>> THEN <<SubSeq(t, 1, n)>>
        ELSE <<SubSeq(t, 1, n), rest>>

\* s.split(): all whitespace-separated tokens
RECURSIVE split(_)
split(s) ==
    LET t == lstrip(s)
        n == TokenLen(t)
    IN  IF t = <<>> THEN <<>> ELSE <<SubSeq(t, 1, n)>> \o split(SubSeq(t, n + 1, Len(t)))

IsDigit(c) == Occurs(Digits, c)
DigitValue(c) == IndexIn(Digits, c) - 1

\* the digits of an int literal: digits with single underscores between them
IsDigitRun(s) ==
    /\ s # <<>>
    /\ IsDigit(s[1]) /\ IsDigit(s[Len(s)])
    /\ \A i \in 1..Len(s) : IsDigit(s[i]) \/ s[i] = "_"
    /\ \A i \in 1..(Len(s) - 1) : ~(s[i] = "_" /\ s[i + 1] = "_")

RECURSIVE DigitRunValue(_, _)
DigitRunValue(s, acc) ==
    IF s = <<>> THEN acc
    ELSE IF s[1] = "_" THEN DigitRunValue(Tail(s), acc)
    ELSE DigitRunValue(Tail(s), 10 * acc + DigitValue(s[1]))

\* int(s) for a str s: the value, or ValueError
int_of_str(s) ==
    LET t == strip(s)
        signed == t # <<>> /\ t[1] \in {"+", "-"}
        body == IF signed THEN Tail(t) ELSE t
    IN  IF ~IsDigitRun(body) THEN Raised("ValueError")
        ELSE IF signed /\ t[1] = "-" THEN PyInt(0 - DigitRunValue(body, 0))
        ELSE PyInt(DigitRunValue(body, 0))

\* int(v)
int(v) ==
    CASE v[1] = "int" -> v
      [] v[1] = "bool" -> PyInt(IF v[2] THEN 1 ELSE 0)
      [] v[1] = "str" -> int_of_str(v[2])
      [] OTHER -> Raised("TypeError")

RECURSIVE NatDigits(_)
NatDigits(n) == IF n < 10 THEN <<Digits[n + 1]>> ELSE Append(NatDigits(n \div 10), Digits[(n % 10) + 1])

\* str(v), for the values an answer key holds
str(v) ==
    CASE v[1] = "str" -> v[2]
      [] v[1] = "int" -> IF v[2] < 0 THEN <<"-">> \o NatDigits(0 - v[2]) ELSE NatDigits(v[2])
      [] v[1] = "bool" -> IF v[2] THEN <<"T", "r", "u", "e">> ELSE <<"F", "a", "l", "s", "e">>
      [] v[1] = "none" -> <<"N", "o", "n", "e">>

(****************************** DialogState *******************************)

K_tutor_history == PyStr(<<"t","u","t","o","r","_","h","i","s","t","o","r","y">>)
K_last_topic == PyStr(<<"l","a","s","t","_","t","o","p","i","c">>)
K_current_test == PyStr(<<"c","u","r","r","e","n","t","_","t","e","s","t">>)
K_problem_solver == PyStr(<<"p","r","o","b","l","e","m","_","s","o","l","v","e","r">>)
K_active == PyStr(<<"a","c","t","i","v","e">>)
K_topic == PyStr(<<"t","o","p","i","c">>)
K_steps == PyStr(<<"s","t","e","p","s">>)
K_current_step == PyStr(<<"c","u","r","r","e","n","t","_","s","t","e","p">>)

create_initial_state ==
    PyDict(<< <<K_tutor_history, PyList(<<>>)>>,
              <<K_last_topic, PyNone>>,
              <<K_current_test, PyNone>>,
              <<K_problem_solver,
                PyDict(<< <<K_active, PyBool(FALSE)>>,
                          <<K_topic, PyNone>>,
                          <<K_steps, PyList(<<>>)>>,
                          <<K_current_step, PyInt(0)>> >>)>> >>)

\* nested_key not in c: membership for a dict or list, substring for a str,
\* TypeError for a value that is no container
NotIn(nested_key, c) ==
    CASE c[1] = "dict" -> PyBool(~DictHas(c, nested_key))
      [] c[1] = "list" -> PyBool(~Occurs(c[2], nested_key))
      [] c[1] = "str" -> PyBool(~IsSubstring(nested_key[2], c[2]))
      [] OTHER -> Raised("TypeError")

\* c[nested_key] = v: only a dict takes a str key
SetItem(c, nested_key, v) ==
    IF c[1] = "dict" THEN DictSet(c, nested_key, v) ELSE Raised("TypeError")

\* main.py:56-58: the inner loop over the defaults of a nested dict, from item i
RECURSIVE FillNested(_, _, _)
FillNested(c, defaults, i) ==
    IF i > Len(defaults[2]) THEN c
    ELSE LET nested_key == defaults[2][i][1]
             nested_default == defaults[2][i][2]
             absent == NotIn(nested_key, c)
         IN  IF IsRaised(absent) THEN absent
             ELSE IF ~absent[2] THEN FillNested(c, defaults, i + 1)
             ELSE LET c2 == SetItem(c, nested_key, nested_default)
                  IN  IF IsRaised(c2) THEN c2 ELSE FillNested(c2, defaults, i + 1)

\* main.py:51-58: the loop over base.items(), from item i
RECURSIVE FillDefaults(_, _, _)
FillDefaults(st, base, i) ==
    IF i > Len(base[2]) THEN st
    ELSE LET key == base[2][i][1]
             default_value == base[2][i][2]
         IN  IF ~DictHas(st, key)
             THEN FillDefaults(DictSet(st, key, default_value), base, i + 1)
             ELSE IF IsDict(default_value)
             THEN LET filled == FillNested(DictGet(st, key), default_value, 1)
                  IN  IF IsRaised(filled) THEN filled
                      ELSE FillDefaults(DictSet(st, key, filled), base, i + 1)
             ELSE FillDefaults(st, base, i + 1)

\* question numbers are rebased to start at 0
RECURSIVE NormalizeTest_rebased(_, _, _)
NormalizeTest_rebased(current_test, normalized_test, i) ==
    IF i > Len(current_test[2]) THEN normalized_test
    ELSE LET key == current_test[2][i][1]
             value == current_test[2][i][2]
             n == int(key)
         IN  IF IsRaised(n)
             THEN NormalizeTest_rebased(current_test, normalized_test, i + 1)
             ELSE NormalizeTest_rebased(current_test,
                                DictSet(normalized_test, PyInt(n[2] - 1),
                                        PyStr(upper(str(value)))),
                                i + 1)

\* an entry whose key parses keeps the key it had
RECURSIVE NormalizeTest_rawkeys(_, _, _)
NormalizeTest_rawkeys(current_test, normalized_test, i) ==
    IF i > Len(current_test[2]) THEN normalized_test
    ELSE LET key == current_test[2][i][1]
             value == current_test[2][i][2]
             n == int(key)
         IN  IF IsRaised(n)
             THEN NormalizeTest_rawkeys(current_test, normalized_test, i + 1)
             ELSE NormalizeTest_rawkeys(current_test,
                                DictSet(normalized_test, key, PyStr(upper(str(value)))),
                                i + 1)

\* main.py:62-67: the loop that rebuilds the answer key, from item i
RECURSIVE NormalizeTest(_, _, _)
NormalizeTest(current_test, normalized_test, i) ==
    IF i > Len(current_test[2]) THEN normalized_test
    ELSE LET key == current_test[2][i][1]
             value == current_test[2][i][2]
             n == int(key)
         IN  IF IsRaised(n)
             THEN NormalizeTest(current_test, normalized_test, i + 1)
             ELSE NormalizeTest(current_test,
                                DictSet(normalized_test, n, PyStr(upper(str(value)))),
                                i + 1)

\* an answer key without entries stays an empty dict
NormalizeCurrentTest_keepEmpty(st) ==
    LET current_test == DictGetOrNone(st, K_current_test)
    IN  IF IsDict(current_test)
        THEN DictSet(st, K_current_test, NormalizeTest(current_test, PyDict(<<>>), 1))
        ELSE st

\* main.py:60-68
NormalizeCurrentTest(st) ==
    LET current_test == DictGetOrNone(st, K_current_test)
    IN  IF IsDict(current_test)
        THEN LET normalized_test == NormalizeTest(current_test, PyDict(<<>>), 1)
             IN  DictSet(st, K_current_test,
                         IF Truthy(normalized_test) THEN normalized_test ELSE PyNone)
        ELSE st

\* main.py:43-70
normalize_state(st) ==
    LET base == create_initial_state
    IN  IF ~IsDict(st) THEN base
        ELSE LET filled == FillDefaults(st, base, 1)
             IN  IF IsRaised(filled) THEN filled ELSE NormalizeCurrentTest(filled)

(************************ _parse_progress_command **************************)

W_progress == <<"p", "r", "o", "g", "r", "e", "s", "s">>

\* the filter is what follows the word "progress", not what follows the first token
parse_progress_command_slice(user_text) ==
    LET lowered == strip(lower(user_text))
        rest == strip(SubSeq(strip(user_text), Len(W_progress) + 1, Len(strip(user_text))))
    IN  IF ~startswith(lowered, W_progress) THEN <<FALSE, PyNone>>
        ELSE <<TRUE, IF rest # <<>> THEN PyStr(rest) ELSE PyNone>>

\* only the exact first token "progress" is a command
parse_progress_command_token(user_text) ==
    LET parts == split_maxsplit1(user_text)
        rest == IF Len(parts) > 1 THEN strip(parts[2]) ELSE <<>>
    IN  IF parts = <<>> \/ lower(parts[1]) # W_progress THEN <<FALSE, PyNone>>
        ELSE <<TRUE, IF rest # <<>> THEN PyStr(rest) ELSE PyNone>>

\* main.py:73-83: (is_progress_command, topic_filter)
parse_progress_command(user_text) ==
    LET lowered == strip(lower(user_text))
        parts == split_maxsplit1(user_text)
        rest == IF Len(parts) > 1 THEN strip(parts[2]) ELSE <<>>
    IN  IF ~startswith(lowered, W_progress) THEN <<FALSE, PyNone>>
        ELSE <<TRUE, IF Len(parts) > 1 /\ rest # <<>> THEN PyStr(rest) ELSE PyNone>>

(****************************** test results ******************************)

\* A float is [m, f]: the bits m of its significand, first bit first, and the
\* number f of them that come after the binary point; its value is m / 2^f.
\* Significand holds the 53 bits of a binary64.
Significand == 53

\* the w low bits of a natural number
BitsWide(n, w) == [i \in 1..w |-> (n \div 2^(w - i)) % 2]

\* the bits of a natural number under 2^30, none for 0
BitsOf(n) == BitsWide(n, CHOOSE w \in 0..30 : n < 2^w /\ (w = 0 \/ n >= 2^(w - 1)))

\* the number of up to 30 bits
RECURSIVE BitValue(_)
BitValue(bits) ==
    IF bits = <<>> THEN 0
    ELSE IF Len(bits) = 1 THEN bits[1]
    ELSE LET h == Len(bits) \div 2
         IN  BitValue(SubSeq(bits, 1, h)) * 2^(Len(bits) - h)
                + BitValue(SubSeq(bits, h + 1, Len(bits)))

\* 2^n mod t for n < 65 and t < 2^15, by powers of 2^13
Pow2Mod(n, t) ==
    LET c == 8192 % t
        c2 == (c * c) % t
        c3 == (c2 * c) % t
        c4 == (c3 * c) % t
        q == n \div 13
        high == CASE q = 0 -> 1 % t [] q = 1 -> c [] q = 2 -> c2 [] q = 3 -> c3 [] OTHER -> c4
    IN  (high * 2^(n % 13)) % t

\* what is left of r after n bits of r / t
RemainderAfter(r, t, n) == (r * Pow2Mod(n, t)) % t

\* the first n bits of r / t after the binary point, for r < t
QuotientBits(r, t, n) == [i \in 1..n |-> (2 * RemainderAfter(r, t, i - 1)) \div t]

\* the bits plus one
Successor(bits) ==
    IF \A i \in 1..Len(bits) : bits[i] = 1
    THEN <<1>> \o [i \in 1..Len(bits) |-> 0]
    ELSE LET z == CHOOSE i \in 1..Len(bits) :
                      bits[i] = 0 /\ \A j \in (i + 1)..Len(bits) : bits[j] = 1
         IN  [i \in 1..Len(bits) |-> IF i < z THEN bits[i] ELSE IF i = z THEN 1 ELSE 0]

\* round to nearest, ties to even: kept are the bits that stay, guard is the
\* first bit that goes and sticky tells whether any later bit is set
RoundHalfEven(kept, guard, sticky) ==
    IF guard = 1 /\ (sticky \/ kept[Len(kept)] = 1) THEN Successor(kept) ELSE kept

\* the bits of the product of up to 60 bits and k < 2^10, by parts of 20 bits
TimesBits(bits, k) ==
    LET padded == [i \in 1..(60 - Len(bits)) |-> 0] \o bits
        low == BitValue(SubSeq(padded, 41, 60)) * k
        mid == BitValue(SubSeq(padded, 21, 40)) * k + low \div 2^20
        high == BitValue(SubSeq(padded, 1, 20)) * k + mid \div 2^20
    IN  BitsOf(high) \o BitsWide(mid % 2^20, 20) \o BitsWide(low % 2^20, 20)

\* how often s is doubled to reach t
RECURSIVE Doublings(_, _)
Doublings(s, t) == IF s >= t THEN 0 ELSE 1 + Doublings(2 * s, t)

\* s / t of two positive ints: the float nearest to the quotient
truediv(s, t) ==
    LET e == Doublings(s, t)
        whole == BitsOf((s * 2^e) \div t)
        r == (s * 2^e) % t
        n == Significand - Len(whole)
    IN  [m |-> RoundHalfEven(whole \o QuotientBits(r, t, n),
                             (2 * RemainderAfter(r, t, n)) \div t,
                             RemainderAfter(r, t, n + 1) # 0),
         f |-> e + n]

\* a * k of a float and a small positive int: the float nearest to the product
float_mul(a, k) ==
    LET p == TimesBits(a.m, k)
        dropped == Len(p) - Significand
    IN  IF dropped <= 0 THEN [m |-> p, f |-> a.f]
        ELSE [m |-> RoundHalfEven(SubSeq(p, 1, Significand), p[Significand + 1],
                                  \E i \in (Significand + 2)..Len(p) : p[i] = 1),
              f |-> a.f - dropped]

\* int(a) of a float that is not negative: its fraction is cut off
int_of_float(a) == IF Len(a.m) > a.f THEN BitValue(SubSeq(a.m, 1, Len(a.m) - a.f)) ELSE 0

\* the quotient is cut off before it is multiplied: int(score / total) * 100
percent_of_whole(score, total) == IF total > 0 THEN (score \div total) * 100 ELSE 0

\* main.py:198  int(score / total * 100) if total > 0 else 0, computed in floats
\* as Python computes it
percent_of(score, total) ==
    IF total > 0
    THEN IF score = 0 THEN 0 ELSE int_of_float(float_mul(truediv(score, total), 100))
    ELSE 0

\* sqlite_store.py:57-66: the row that save_test_result inserts
save_test_result(topic, score, total, percent, user_answers) ==
    [topic |-> topic, score |-> score, total |-> total, percent |-> percent,
     user_answers |-> user_answers]

\* LIKE compares ASCII letters without regard to case
LikeFold(s) ==
    [i \in 1..Len(s) |->
        IF \E j \in 1..26 : UpperChars[j] = s[i] THEN LowerChar(s[i]) ELSE s[i]]

\* sqlite_store.py:69-92: the rows whose topic contains the filter, newest first
\* (the limit of 200 rows is above MaxResults)
RECURSIVE load_test_results(_, _)
load_test_results(rows, topic) ==
    IF rows = <<>> THEN <<>>
    ELSE LET r == rows[Len(rows)]
             older == load_test_results(SubSeq(rows, 1, Len(rows) - 1), topic)
             hit == \/ ~Truthy(topic)
                    \/ r.topic[1] = "str" /\ IsSubstring(LikeFold(topic[2]), LikeFold(r.topic[2]))
         IN  IF hit THEN <<r>> \o older ELSE older

RECURSIVE SumField(_, _)
SumField(rows, f) == IF rows = <<>> THEN 0 ELSE rows[1][f] + SumField(Tail(rows), f)

\* sqlite_store.py:95-106
calc_average(rows) ==
    LET total_correct == SumField(rows, "score")
        total_questions == SumField(rows, "total")
    IN  [correct |-> total_correct, total |-> total_questions,
         percent |-> IF total_questions # 0
                     THEN (total_correct * 100) \div total_questions ELSE 0]

\* main.py:86-117: the report, as the data its lines are formatted from
show_progress(rows, topic_filter) ==
    LET found == load_test_results(rows, topic_filter)
    IN  IF found = <<>> THEN <<"no results", topic_filter>>
        ELSE <<"progress", <<topic_filter, found, calc_average(found)>> >>

(****************************** collaborators ******************************)

\* the selectors the classifier may return: 1..5 are the agents, 0 is outside the closed set
AgentIds == 0..5

\* agents/moderator.py: (agent_id, change_topic)
run_moderator(request_text) == AgentIds \X {0, 1}

Message(role, content) == <<"message", <<role, content>> >>

\* agents/tutor.py: (answer, tutor_history) with the exchange appended
run_tutor(request_text, tutor_history) ==
    { <<<<"tutor answer", request_text>>,
        PyList(tutor_history[2] \o <<Message("user", request_text),
                                     Message("assistant", <<"tutor answer", request_text>>)>>)>> }

Key_ABC ==
    PyDict(<< <<PyInt(1), PyStr(<<"A">>)>>, <<PyInt(2), PyStr(<<"B">>)>>,
              <<PyInt(3), PyStr(<<"C">>)>> >>)
Key_B == PyDict(<< <<PyInt(1), PyStr(<<"B">>)>> >>)
AnswerKeys == {Key_ABC, Key_B}
Theme == PyStr(<<"P", "l", "a", "n", "e", "t", "s">>)

\* agents/examiner.py, utils/format_exam.py: (questions_text, answers_dict, theme)
run_examiner(topic) ==
    { <<<<"questions", topic, k>>, k, Theme>> : k \in AnswerKeys }

IsLetter(c) == Occurs(LowerChars, c) \/ Occurs(UpperChars, c)

\* a submitted chunk "3b": (question index, letter), or no answer
ParseAnswer(tok) ==
    LET n == Len(tok)
    IN  IF n >= 2 /\ IsLetter(tok[n]) /\ \A i \in 1..(n - 1) : IsDigit(tok[i])
        THEN <<DigitRunValue(SubSeq(tok, 1, n - 1), 0), UpperChar(tok[n])>>
        ELSE <<>>

\* the letter submitted for question q: the last chunk that names q
RECURSIVE Submitted(_, _)
Submitted(toks, q) ==
    IF toks = <<>> THEN <<>>
    ELSE LET a == ParseAnswer(toks[Len(toks)])
         IN  IF a # <<>> /\ a[1] = q THEN <<a[2]>>
             ELSE Submitted(SubSeq(toks, 1, Len(toks) - 1), q)

\* agents/analyser.py: (report_text, score, total)
run_analyser(current_test, request_text) ==
    LET toks == split(request_text)
        right == {i \in 1..Len(current_test[2]) :
                    Submitted(toks, current_test[2][i][1][2]) = upper(current_test[2][i][2][2])}
    IN  <<<<"report", <<Cardinality(right), Len(current_test[2])>> >>,
          Cardinality(right), Len(current_test[2])>>

\* the most steps a walkthrough has
MaxSteps == 3

StepText(i) == PyStr(<<"s", "t", "e", "p", Digits[i + 1]>>)

MkSolver(active, topic, steps, current_step) ==
    PyDict(<< <<K_active, active>>, <<K_topic, topic>>, <<K_steps, steps>>,
              <<K_current_step, current_step>> >>)

\* agents/problem_solver.py: (answer, ps_state) of a new walkthrough
start_problem_solver(request_text) ==
    { <<<<"step", 0>>,
        MkSolver(PyBool(TRUE), PyStr(request_text),
                 PyList([i \in 1..n |-> StepText(i)]), PyInt(0))>> : n \in 1..MaxSteps }

\* main.py:140-141
yes_words ==
    { <<"y", "e", "s">>, <<"y">>, <<"U+0434", "U+0430">>, <<"U+0430", "U+0433", "U+0430">>,
      <<"U+043F", "U+043E", "U+043D", "U+044F", "U+043B">>,
      <<"U+043F", "U+043E", "U+043D", "U+044F", "U+043B", "U+0430">>,
      <<"U+043F", "U+043E", "U+043D", "U+044F", "U+043B", ".">>,
      <<"U+043F", "U+043E", "U+043D", "U+044F", "U+043B", "U+0430", ".">> }
no_words ==
    { <<"n", "o">>, <<"n">>, <<"U+043D", "U+0435", "U+0442">>, <<"U+043D", "U+0435", "U+0430">>,
      <<"U+043D", "U+0435">>,
      <<"U+043D", "U+0435", " ", "U+043F", "U+043E", "U+043D", "U+044F", "U+043B">>,
      <<"U+043D", "U+0435", " ", "U+043F", "U+043E", "U+043D", "U+044F", "U+043B", "U+0430">> }

\* agents/problem_solver.py: (answer, ps_state) after a yes/no reply
continue_problem_solver(ps, request_text) ==
    LET steps == DictGet(ps, K_steps)
        step == DictGet(ps, K_current_step)[2]
    IN  IF lower(strip(request_text)) \in yes_words
        THEN IF step + 1 < Len(steps[2])
             THEN { <<<<"step", step + 1>>, DictSet(ps, K_current_step, PyInt(step + 1))>> }
             ELSE { <<<<"solved", 0>>,
                      DictSet(DictSet(ps, K_current_step, PyInt(step + 1)),
                              K_active, PyBool(FALSE))>> }
        ELSE { <<<<"step again", step>>, ps>>,
               <<<<"stopped", 0>>, DictSet(ps, K_active, PyBool(FALSE))>> }

\* agents/summarizer.py:25-34
run_summarizer(user_text) == <<"summary", user_text>>

(************************** process_user_message **************************)

\* main.py:128,153
Reply_EnterRequest == <<"fixed", "Pozhaluysta, vvedite zapros.">>
\* main.py:195
Reply_NoTest == <<"fixed", "Net testa dlya proverki!">>
\* main.py:218
Reply_UnknownMode == <<"fixed", "Neizvestnyy rezhim, moderator vernul strannyy kod.">>
\* main.py:170-177
Instructions == "Kak otvechat na testy ... 1a 2c 3b 4d 5a"

\* what one call returns and does: the reply, the new state, the collaborators it
\* called in order, the rows it saved, and the classifier's answer when it was asked
Outcome(answer, st, calls, rows) ==
    [answer |-> answer, state |-> st, calls |-> calls, saved |-> rows, classified |-> <<>>]

\* the tutor turn ends the walkthrough in progress
TutorBranch_abandon(request_text, st) ==
    { Outcome(r[1],
              DictSet(DictSet(st, K_tutor_history, r[2]), K_problem_solver,
                      DictSet(DictGet(st, K_problem_solver), K_active, PyBool(FALSE))),
              <<"run_moderator", "run_tutor">>, <<>>) :
        r \in run_tutor(request_text, DictGet(st, K_tutor_history)) }

\* main.py:160-166
TutorBranch(request_text, st) ==
    { Outcome(r[1], DictSet(st, K_tutor_history, r[2]), <<"run_moderator", "run_tutor">>, <<>>) :
        r \in run_tutor(request_text, DictGet(st, K_tutor_history)) }

\* last_topic keeps the topic the exam was asked for
ExaminerBranch_keepTopic(request_text, st) ==
    LET unset == DictGet(st, K_last_topic) = PyNone
        topic == IF unset THEN PyStr(request_text) ELSE DictGet(st, K_last_topic)
        st1 == IF unset THEN DictSet(st, K_last_topic, topic) ELSE st
    IN  { Outcome(<<"exam", <<Instructions, r[1]>> >>,
                  DictSet(st1, K_current_test, r[2]),
                  <<"run_moderator", "run_examiner">>, <<>>) :
            r \in run_examiner(topic) }

\* main.py:168-190
ExaminerBranch(request_text, st) ==
    LET unset == DictGet(st, K_last_topic) = PyNone
        topic == IF unset THEN PyStr(request_text) ELSE DictGet(st, K_last_topic)
        st1 == IF unset THEN DictSet(st, K_last_topic, topic) ELSE st
    IN  { Outcome(<<"exam", <<Instructions, r[1]>> >>,
                  DictSet(DictSet(st1, K_last_topic, r[3]), K_current_test, r[2]),
                  <<"run_moderator", "run_examiner">>, <<>>) :
            r \in run_examiner(topic) }

\* the graded test is left in place
AnalyserBranch_keep(request_text, st) ==
    IF DictGet(st, K_current_test) = PyNone
    THEN { Outcome(Reply_NoTest, st, <<"run_moderator">>, <<>>) }
    ELSE LET r == run_analyser(DictGet(st, K_current_test), request_text)
             percent == percent_of(r[2], r[3])
         IN  { Outcome(r[1], st,
                       <<"run_moderator", "run_analyser", "save_test_result">>,
                       <<save_test_result(DictGet(st, K_last_topic), r[2], r[3], percent,
                                          request_text)>>) }

\* main.py:192-207
AnalyserBranch(request_text, st) ==
    IF DictGet(st, K_current_test) = PyNone
    THEN { Outcome(Reply_NoTest, st, <<"run_moderator">>, <<>>) }
    ELSE LET r == run_analyser(DictGet(st, K_current_test), request_text)
             percent == percent_of(r[2], r[3])
         IN  { Outcome(r[1], DictSet(st, K_current_test, PyNone),
                       <<"run_moderator", "run_analyser", "save_test_result">>,
                       <<save_test_result(DictGet(st, K_last_topic), r[2], r[3], percent,
                                          request_text)>>) }

\* main.py:209-212
SolverBranch(request_text, st) ==
    { Outcome(r[1], DictSet(st, K_problem_solver, r[2]),
              <<"run_moderator", "start_problem_solver">>, <<>>) :
        r \in start_problem_solver(request_text) }

\* main.py:214-216
SummarizerBranch(request_text, st) ==
    { Outcome(run_summarizer(request_text), st, <<"run_moderator", "run_summarizer">>, <<>>) }

\* main.py:217-218
UnknownBranch(st) == { Outcome(Reply_UnknownMode, st, <<"run_moderator">>, <<>>) }

\* the topic-changed signal is ignored
ApplyTopicChange_ignored(request_text, st, change_topic) == st

\* main.py:157-158
ApplyTopicChange(request_text, st, change_topic) ==
    IF change_topic = 1 THEN DictSet(st, K_last_topic, PyStr(request_text)) ELSE st

\* main.py:155-220: the outcomes once the classifier has answered
Dispatch(request_text, st, agent_id, change_topic) ==
    LET st1 == ApplyTopicChange(request_text, st, change_topic)
        outcomes ==
            CASE agent_id = 1 -> TutorBranch(request_text, st1)
              [] agent_id = 2 -> ExaminerBranch(request_text, st1)
              [] agent_id = 3 -> AnalyserBranch(request_text, st1)
              [] agent_id = 4 -> SolverBranch(request_text, st1)
              [] agent_id = 5 -> SummarizerBranch(request_text, st1)
              [] OTHER -> UnknownBranch(st1)
    IN  { [o EXCEPT !.classified = <<agent_id, change_topic>>] : o \in outcomes }

\* a reply that only begins with a yes/no word is taken for one
IsYesNo_prefix(request_text) ==
    LET normalized == lower(request_text)
    IN  \E w \in yes_words \cup no_words : startswith(normalized, w)

\* a reply that is the beginning of a yes/no word is taken for one
IsYesNo_abbreviated(request_text) ==
    LET normalized == lower(request_text)
    IN  \E w \in yes_words \cup no_words : startswith(w, normalized)

\* main.py:143
IsYesNo(request_text) ==
    LET normalized == lower(request_text)
    IN  normalized \in yes_words \/ normalized \in no_words

\* the sub-state the continuation returns is not stored
ContinueBranch_dropped(request_text, st) ==
    { Outcome(r[1], st, <<"continue_problem_solver">>, <<>>) :
        r \in continue_problem_solver(DictGet(st, K_problem_solver), request_text) }

\* the router counts the reply as a step of its own
ContinueBranch_counted(request_text, st) ==
    { Outcome(r[1],
              DictSet(st, K_problem_solver,
                      DictSet(r[2], K_current_step,
                              PyInt(DictGet(r[2], K_current_step)[2] + 1))),
              <<"continue_problem_solver">>, <<>>) :
        r \in continue_problem_solver(DictGet(st, K_problem_solver), request_text) }

\* main.py:138-149
ContinueBranch(request_text, st) ==
    { Outcome(r[1], DictSet(st, K_problem_solver, r[2]), <<"continue_problem_solver">>, <<>>) :
        r \in continue_problem_solver(DictGet(st, K_problem_solver), request_text) }

\* main.py:120-220: every outcome of one call, the collaborators' answers being free;
\* rows are the stored test results show_progress reads. An exception of
\* normalize_state propagates: it is the reply of the outcome
process_user_message(user_text, st0, rows) ==
    LET st == normalize_state(st0)
        request_text == strip(user_text)
        progress == parse_progress_command(request_text)
    IN  IF IsRaised(st)
        THEN { Outcome(st, st0, <<>>, <<>>) }
        ELSE IF user_text = <<>>
        THEN { Outcome(Reply_EnterRequest, st, <<>>, <<>>) }
        ELSE IF progress[1]
        THEN { Outcome(show_progress(rows, progress[2]), st, <<"show_progress">>, <<>>) }
        ELSE IF Truthy(DictGet(DictGet(st, K_problem_solver), K_active)) /\ IsYesNo(request_text)
        THEN ContinueBranch(request_text, st)
        ELSE IF request_text = <<>>
        THEN { Outcome(Reply_EnterRequest, st, <<>>, <<>>) }
        ELSE UNION { Dispatch(request_text, st, m[1], m[2]) : m \in run_moderator(request_text) }

(********************** arguments of normalize_state **********************)

\* the most items an enumerated answer key holds
MaxTestItems == 2

Absent == <<"absent", 0>>
Item(k, v) == IF v = Absent THEN <<>> ELSE << <<k, v>> >>

MkState(th, lt, ct, ps, extra) ==
    PyDict(Item(K_tutor_history, th) \o Item(K_last_topic, lt) \o Item(K_current_test, ct)
           \o Item(K_problem_solver, ps) \o Item(PyStr(<<"e", "x", "t", "r", "a">>), extra))

TestKeys == {PyStr(<<"1">>), PyStr(<<"x">>), PyStr(<<"2">>), PyInt(1), PyNone}
TestValues == {PyStr(<<"a">>), PyStr(<<"C">>), PyNone}

DistinctKeys(items) == \A i, j \in 1..Len(items) : items[i][1] = items[j][1] => i = j

TestDicts ==
    {PyDict(items) : items \in {q \in UNION {[1..k -> TestKeys \X TestValues] : k \in 0..MaxTestItems} :
                                  DistinctKeys(q)}}

\* spec.md section 8: {"1": "a", "x": "b", "2": "C"}
ExampleTest ==
    PyDict(<< <<PyStr(<<"1">>), PyStr(<<"a">>)>>,
              <<PyStr(<<"x">>), PyStr(<<"b">>)>>,
              <<PyStr(<<"2">>), PyStr(<<"C">>)>> >>)

SolverShapes ==
    {Absent, PyNone, PyInt(1), PyStr(<<"x">>), PyList(<<>>), PyDict(<<>>),
     PyDict(<< <<K_active, PyBool(TRUE)>> >>),
     PyDict(<< <<K_steps, PyList(<<PyStr(<<"s">>)>>)>>, <<K_topic, PyStr(<<"t">>)>> >>),
     PyDict(<< <<K_active, PyBool(TRUE)>>, <<K_topic, PyStr(<<"t">>)>>,
               <<K_steps, PyList(<<PyStr(<<"s">>)>>)>>, <<K_current_step, PyInt(0)>> >>)}

RawStates ==
    {PyNone, PyInt(5), PyStr(<<"x">>), PyList(<<>>), PyDict(<<>>)}
    \cup {MkState(th, lt, ct, ps, extra) :
            th \in {Absent, PyList(<<>>)},
            lt \in {Absent, PyNone, PyStr(<<"t">>)},
            ct \in {Absent, PyNone, PyStr(<<"x">>), PyDict(<<>>), ExampleTest},
            ps \in SolverShapes,
            extra \in {Absent, PyInt(7)}}
    \cup {MkState(Absent, lt, ct, ps, Absent) :
            lt \in {PyNone},
            ct \in TestDicts,
            ps \in {Absent, PyDict(<< <<K_active, PyBool(TRUE)>> >>)}}

(******************************* Init **************************************)

\* the most exchanges tutor_history holds, and the most rows test_results holds
MaxHistory == 1
MaxResults == 1

T_empty == <<>>
T_blank == <<" ", "\t">>
T_progressive == <<"P", "r", "o", "g", "r", "e", "s", "s", "i", "v", "e">>
T_progress_planets ==
    <<"p", "r", "o", "g", "r", "e", "s", "s", " ", "p", "l", "a", "n", "e", "t", "s">>
\* "da" and " Net" in Cyrillic letters
T_yes == <<"U+0434", "U+0430">>
T_no == <<" ", "U+041D", "U+0435", "U+0442">>
\* "da, a eshchyo..." in Cyrillic letters
T_yes_and_more ==
    <<"U+0434", "U+0430", ",", " ", "U+0430", " ", "U+0435", "U+0449", "U+0451", ".", ".", ".">>
T_answers == <<"1", "a", " ", "2", "x", " ", "4", "c">>

\* what the user types in the dialog loop
DialogTexts == {T_blank, T_progress_planets, T_yes, T_answers}

NoTurn ==
    [user_text |-> <<>>, answer |-> NotCalled, calls |-> <<>>,
     classified |-> <<>>, saved |-> <<>>, called |-> FALSE]

Init ==
    /\ state = create_initial_state
    /\ results = <<>>
    /\ turn = NoTurn
    /\ exam_topic = PyNone
    /\ arg = PyNone
    /\ ret = NotCalled
    /\ ret2 = NotCalled
    /\ NoWeb

\* main.py:236-249: one turn of the dialog loop, answer, state = process_user_message(...)
Turn ==
    /\ \E user_text \in DialogTexts :
         \E o \in process_user_message(user_text, state, results) :
            /\ Len(results) + Len(o.saved) <= MaxResults
            /\ Len(DictGet(o.state, K_tutor_history)[2]) <= 2 * MaxHistory
            /\ state' = o.state
            /\ results' = results \o o.saved
            /\ turn' = [user_text |-> user_text, answer |-> o.answer,
                        calls |-> o.calls, classified |-> o.classified, saved |-> o.saved,
                        called |-> TRUE]
            /\ exam_topic' = IF Occurs(o.calls, "run_examiner")
                              THEN DictGet(o.state, K_last_topic) ELSE exam_topic
    /\ UNCHANGED <<arg, ret, ret2>>
    /\ UNCHANGED web

Next == Turn

Spec == Init /\ [][Next]_vars

NormInit ==
    /\ arg \in RawStates
    /\ ret = NotCalled
    /\ ret2 = NotCalled
    /\ state = create_initial_state
    /\ results = <<>>
    /\ turn = NoTurn
    /\ exam_topic = PyNone
    /\ NoWeb

\* normalize_state(arg)
Normalize ==
    /\ ret = NotCalled
    /\ ret' = normalize_state(arg)
    /\ UNCHANGED <<state, results, turn, exam_topic, arg, ret2>>
    /\ UNCHANGED web

\* normalize_state(normalize_state(arg)); an exception of the inner call propagates
Renormalize ==
    /\ ret # NotCalled
    /\ ret2 = NotCalled
    /\ ret2' = IF IsRaised(ret) THEN ret ELSE normalize_state(ret)
    /\ UNCHANGED <<state, results, turn, exam_topic, arg, ret>>
    /\ UNCHANGED web

NormNext == Normalize \/ Renormalize

SpecNorm == NormInit /\ [][NormNext]_vars

(************** one call of _parse_progress_command on a text **************)

W_progressive == <<"p", "r", "o", "g", "r", "e", "s", "s", "i", "v", "e">>
W_Progress_planets ==
    <<"P", "r", "o", "g", "r", "e", "s", "s", " ", "p", "l", "a", "n", "e", "t", "s">>
W_planets == <<"p", "l", "a", "n", "e", "t", "s">>

ParseTexts ==
    { lead \o word \o rest :
        lead \in {<<>>, <<" ">>},
        word \in {W_progress, <<"P", "r", "o", "g", "r", "e", "s", "s">>, upper(W_progress),
                  W_progressive, <<"p", "r", "o", "g">>, <<"x">>},
        rest \in {<<>>, <<" ">>, <<" ">> \o W_planets, <<" ", "\t">> \o W_planets \o <<" ">>,
                  <<"\t", "i", "v", "e">>, <<" ", "a", " ", "b">>} }

ParseInit ==
    /\ arg \in ParseTexts
    /\ ret = NotCalled
    /\ ret2 = NotCalled
    /\ state = create_initial_state
    /\ results = <<>>
    /\ turn = NoTurn
    /\ exam_topic = PyNone
    /\ NoWeb

\* _parse_progress_command(arg)
Parse ==
    /\ ret = NotCalled
    /\ ret' = <<"parsed", parse_progress_command(arg)>>
    /\ UNCHANGED <<state, results, turn, exam_topic, arg, ret2>>
    /\ UNCHANGED web

ParseNext == Parse

SpecParse == ParseInit /\ [][ParseNext]_vars

(***************** one call of process_user_message ************************)

Exchange(text) ==
    PyList(<<Message("user", text), Message("assistant", <<"tutor answer", text>>)>>)

\* the answer key {"1": "b"} as json.loads returns it from the stored state
Key_json == PyDict(<< <<PyStr(<<"1">>), PyStr(<<"b">>)>> >>)

Solver(active, n, current_step) ==
    MkSolver(PyBool(active), PyStr(T_answers), PyList([i \in 1..n |-> StepText(i)]),
             PyInt(current_step))

\* states a dialog can be in when a turn begins: fresh, in use, stored by an older
\* version (keys missing) or never stored
CallStates ==
    { MkState(th, lt, ct, ps, Absent) :
        th \in {PyList(<<>>), Exchange(T_answers)},
        lt \in {PyNone, Theme},
        ct \in {PyNone, Key_ABC, Key_json, PyDict(<<>>)},
        ps \in {Solver(FALSE, 0, 0), Solver(TRUE, 2, 0), Solver(TRUE, 2, 1),
                Solver(FALSE, 2, 2)} }
    \cup {PyNone, PyDict(<<>>),
          MkState(Absent, Theme, Key_json, Absent, PyInt(7)),
          MkState(Absent, Absent, Absent, PyDict(<< <<K_active, PyBool(TRUE)>> >>), Absent)}

CallTexts ==
    yes_words \cup no_words
    \cup {T_empty, T_blank, <<" ">>, W_progress, T_progress_planets, T_progressive,
          <<" ">> \o upper(W_progress) \o <<" ">>,
          T_no, upper(T_yes), <<"\t">> \o T_yes \o <<" ">>, T_yes_and_more, T_answers,
          <<"y", "e">>, <<"y", "e", "s", "!">>,
          <<"U+043D", "U+0435", " ", " ", "U+043F", "U+043E", "U+043D", "U+044F", "U+043B">>}

StoredRows ==
    {<<>>, <<save_test_result(Theme, 1, 3, 33, T_answers)>>}

CallInit ==
    /\ arg \in CallTexts \X CallStates \X StoredRows
    /\ ret = NotCalled
    /\ ret2 = NotCalled
    /\ state = create_initial_state
    /\ results = <<>>
    /\ turn = NoTurn
    /\ exam_topic = PyNone
    /\ NoWeb

\* process_user_message(token, arg[1], arg[2])
Call ==
    /\ ret = NotCalled
    /\ \E o \in process_user_message(arg[1], arg[2], arg[3]) : ret' = <<"outcome", o>>
    /\ UNCHANGED <<state, results, turn, exam_topic, arg, ret2>>
    /\ UNCHANGED web

CallNext == Call

SpecCall == CallInit /\ [][CallNext]_vars

(********************* db/sqlite_store.py: dialogs *************************)

\* json.loads(json.dumps(v)): the keys of a dict come back as str
RECURSIVE json_roundtrip(_)
json_roundtrip(v) ==
    CASE v[1] = "dict" ->
            PyDict([i \in 1..Len(v[2]) |->
                      <<IF v[2][i][1][1] = "str" THEN v[2][i][1] ELSE PyStr(str(v[2][i][1])),
                        json_roundtrip(v[2][i][2])>>])
      [] v[1] = "list" -> PyList([i \in 1..Len(v[2]) |-> json_roundtrip(v[2][i])])
      [] OTHER -> v

\* sqlite_store.py:115: the title of a dialog created without one
T_new_dialog == <<"fixed", "Novyy dialog">>

\* sqlite_store.py:111-131: the table with the new row; its id is sqlite_sequence + 1;
\* owner is the owner binding of the dialog, <<>> for none
create_dialog(ds, seq, st) ==
    Append(ds, [id |-> seq + 1, title |-> T_new_dialog, state |-> json_roundtrip(st),
                owner |-> <<>>])

\* the row exists
HasDialog(ds, dialog_id) == \E i \in 1..Len(ds) : ds[i].id = dialog_id

\* sqlite_store.py:146-165: the row with its state parsed, or None
get_dialog(ds, dialog_id) ==
    IF HasDialog(ds, dialog_id)
    THEN ds[CHOOSE i \in 1..Len(ds) : ds[i].id = dialog_id]
    ELSE PyNone

\* every row takes the new state
update_dialog_state_all(ds, dialog_id, st) ==
    [i \in 1..Len(ds) |-> [ds[i] EXCEPT !.state = json_roundtrip(st)]]

\* sqlite_store.py:168-179
update_dialog_state(ds, dialog_id, st) ==
    [i \in 1..Len(ds) |->
        IF ds[i].id = dialog_id THEN [ds[i] EXCEPT !.state = json_roundtrip(st)] ELSE ds[i]]

\* sqlite_store.py:201-214
add_dialog_message(msgs, dialog_id, role, content) ==
    Append(msgs, [dialog_id |-> dialog_id, role |-> role, content |-> content])

\* sqlite_store.py:217-229: the messages of a dialog, oldest first
get_dialog_messages(msgs, dialog_id) ==
    SelectSeq(msgs, LAMBDA m : m.dialog_id = dialog_id)

(**************************** web_app.py: /chat ****************************)

\* the most dialogs that are created and the most /chat requests that are sent
MaxDialogs == 2
MaxRequests == 2

\* web_app.py:41
GREETING_TEXT == <<"fixed", "Privet! Ya gotova pomoch s uchyoboy.">>

\* web_app.py:906-909: the two lines put before the recognized text, as one character
W_file_prefix == <<"[file, recognized text:]", "\n">>
\* web_app.py:910-911: the line put before the typed message, as one character
W_file_question == <<"\n", "\n", "[additional question:]", "\n">>

\* what parse_image_with_ocr_space recognizes in an uploaded file
OcrText == <<"2", "+", "2">>

\* utils/ocr_space.py:16-62: what the OCR service makes of an uploaded file:
\* a text, no text or blanks only, OCRSpaceError, or the exception of
\* response.json() for an answer that is no JSON (ocr_space.py:47)
OcrResults ==
    {PyStr(OcrText), PyStr(<<>>), PyStr(<<" ", "\n">>), Raised("OCRSpaceError"),
     Raised("ValueError")}

\* a failure of the recognition is taken for an empty text
process_uploaded_file_swallowed(text) == IF IsRaised(text) THEN PyStr(<<>>) ELSE PyStr(strip(text[2]))

\* web_app.py:810-828: the recognized text, trimmed, or the error response; only
\* OCRSpaceError is caught, any other exception propagates
process_uploaded_file(text) ==
    IF text = Raised("OCRSpaceError") THEN HTTPException(502, "OCR error")
    ELSE IF IsRaised(text) THEN text
    ELSE IF strip(text[2]) = <<>> THEN HTTPException(502, "no text in the file")
    ELSE PyStr(strip(text[2]))

\* what a /chat request carries: the message as /chat has trimmed it
\* (web_app.py:843,851) and whether a file is attached
ChatInputs == {<<T_answers, FALSE>>, <<T_empty, TRUE>>, <<T_empty, FALSE>>}

\* web_app.py:903-912: the message of a turn with an uploaded file
upload_message(message, ocr_text) ==
    IF message # <<>>
    THEN W_file_prefix \o ocr_text \o W_file_question \o message
    ELSE W_file_prefix \o ocr_text

\* a /chat request: pc is "ocr" while it awaits the uploaded file, then
\* "done" (200), "failed" (500, web_app.py:925-926) or "rejected" (400, 404, 502);
\* read is the state it read, calls the collaborators its turn called, saved the
\* test results its turn saved, order its place among the requests that have
\* ended, ocr what the OCR service made of its file, overwrote the stored state
\* its write replaced and
\* written the state it stored (history fields)
ChatRequest(dialog_id, message, upload, pc, read) ==
    [dialog_id |-> dialog_id, message |-> message, upload |-> upload, pc |-> pc,
     read |-> read, overwrote |-> PyNone, written |-> PyNone, answer |-> NotCalled,
     calls |-> <<>>, saved |-> <<>>, order |-> 0, ocr |-> PyNone]

\* the places of the try block at which a collaborator or the storage can fail
FailurePoints == {"add user message", "process_user_message", "update_dialog_state",
                  "add assistant message"}

\* web_app.py:920-928: the try block of a turn on the database (ds, msgs, rows);
\* every way it can end, with the database it leaves. A statement that fails
\* writes nothing; the statements before it have committed. The message of a
\* dialog deleted in the meantime violates the foreign key (sqlite_store.py:15,51)
chat_try(r, message, ds, msgs, rows) ==
    LET msgs1 == add_dialog_message(msgs, r.dialog_id, "user", message)
        Failed(ds2, msgs2, rows2) ==
            [dialogs |-> ds2, dialog_messages |-> msgs2, results |-> rows2,
             request |-> [r EXCEPT !.pc = "failed", !.message = message]]
        FailedAfter(o) ==
            [dialogs |-> ds, dialog_messages |-> msgs1, results |-> rows \o o.saved,
             request |-> [r EXCEPT !.pc = "failed", !.message = message,
                                   !.calls = o.calls, !.saved = o.saved]]
        Stored(pc, msgs2, o) ==
            [dialogs |-> update_dialog_state(ds, r.dialog_id, o.state),
             dialog_messages |-> msgs2, results |-> rows \o o.saved,
             request |-> [r EXCEPT !.pc = pc, !.message = message,
                                   !.calls = o.calls, !.saved = o.saved,
                                   !.overwrote = get_dialog(ds, r.dialog_id).state,
                                   !.written = json_roundtrip(o.state),
                                   !.answer = IF pc = "done" THEN o.answer ELSE NotCalled]]
        Finished(fail, o) ==
            CASE fail = "update_dialog_state" -> FailedAfter(o)
              [] fail = "add assistant message" -> Stored("failed", msgs1, o)
              [] OTHER -> Stored("done", add_dialog_message(msgs1, r.dialog_id, "assistant",
                                                            o.answer), o)
        End(fail) ==
            CASE fail = "add user message" -> { Failed(ds, msgs, rows) }
              [] fail = "process_user_message" -> { Failed(ds, msgs1, rows) }
              [] OTHER -> { Finished(fail, o) : o \in process_user_message(message, r.read, rows) }
    IN  UNION { End(fail) : fail \in IF HasDialog(ds, r.dialog_id)
                                     THEN FailurePoints \cup {"none"}
                                     ELSE {"add user message"} }

\* web_app.py:88-93 at import: the default dialog with its greeting
ChatInit ==
    /\ dialogs = create_dialog(<<>>, 0, create_initial_state)
    /\ sqlite_sequence = 1
    /\ dialog_messages = add_dialog_message(<<>>, 1, "assistant", GREETING_TEXT)
    /\ requests = <<>>
    /\ results = <<>>
    /\ state = create_initial_state
    /\ turn = NoTurn
    /\ exam_topic = PyNone
    /\ arg = PyNone
    /\ ret = NotCalled
    /\ ret2 = NotCalled

\* web_app.py:739-742, 66-74: POST /dialogs
CreateDialog ==
    /\ Len(dialogs) < MaxDialogs
    /\ dialogs' = create_dialog(dialogs, sqlite_sequence, create_initial_state)
    /\ sqlite_sequence' = sqlite_sequence + 1
    /\ dialog_messages' =
          add_dialog_message(dialog_messages, sqlite_sequence + 1, "assistant", GREETING_TEXT)
    /\ UNCHANGED <<requests, results, state, turn, exam_topic, arg, ret, ret2>>

\* the request with its place among the requests that have ended
Ended(r) ==
    [r EXCEPT !.order = Cardinality({i \in 1..Len(requests) : requests[i].pc # "ocr"}) + 1]

\* web_app.py:831-901: a /chat request up to its first await after the dialog is
\* read; without an uploaded file nothing awaits and the turn runs to its end
ChatReceive ==
    /\ Len(requests) < MaxRequests
    /\ \E dialog_id \in 1..MaxDialogs, input \in ChatInputs :
         LET message == input[1]
             upload == input[2]
             dialog == get_dialog(dialogs, dialog_id)
             r == ChatRequest(dialog_id, message, upload, "ocr",
                              normalize_state(dialog.state))
         IN  IF (message = <<>> /\ ~upload) \/ ~HasDialog(dialogs, dialog_id)
             THEN /\ requests' = Append(requests,
                                        Ended(ChatRequest(dialog_id, message, upload,
                                                          "rejected", PyNone)))
                  /\ UNCHANGED <<dialogs, dialog_messages, results>>
             ELSE IF upload
             THEN /\ requests' = Append(requests, r)
                  /\ UNCHANGED <<dialogs, dialog_messages, results>>
             ELSE \E e \in chat_try(r, message, dialogs, dialog_messages, results) :
                     /\ requests' = Append(requests, Ended(e.request))
                     /\ dialogs' = e.dialogs
                     /\ dialog_messages' = e.dialog_messages
                     /\ results' = e.results
    /\ UNCHANGED <<sqlite_sequence, state, turn, exam_topic, arg, ret, ret2>>

\* web_app.py:903-928: the request resumes when the uploaded file has been read
\* and recognized, or is rejected when recognition fails (web_app.py:792-828)
ChatResume ==
    /\ \E i \in 1..Len(requests) :
         /\ requests[i].pc = "ocr"
         /\ \E text \in OcrResults :
               LET ocr_text == process_uploaded_file(text)
               IN  IF IsRaised(ocr_text)
                   THEN /\ requests' =
                              [requests EXCEPT ![i] = Ended([requests[i] EXCEPT
                                                               !.pc = "rejected",
                                                               !.ocr = text,
                                                               !.answer = ocr_text])]
                        /\ UNCHANGED <<dialogs, dialog_messages, results>>
                   ELSE \E e \in chat_try([requests[i] EXCEPT !.ocr = text],
                                          upload_message(requests[i].message, ocr_text[2]),
                                          dialogs, dialog_messages, results) :
                           /\ requests' = [requests EXCEPT ![i] = Ended(e.request)]
                           /\ dialogs' = e.dialogs
                           /\ dialog_messages' = e.dialog_messages
                           /\ results' = e.results
    /\ UNCHANGED <<sqlite_sequence, state, turn, exam_topic, arg, ret, ret2>>

ChatNext == CreateDialog \/ ChatReceive \/ ChatResume

SpecChat == ChatInit /\ [][ChatNext]_vars

(**************** web_app.py: trusted-client authenticator *****************)

\* the characters U+0020..U+007E in code point order (the grave accent is written
\* by its code point)
CodePoints ==
    <<" ", "!", "\"", "#", "$", "%", "&", "'", "(", ")", "*", "+", ",", "-", ".", "/",
      "0", "1", "2", "3", "4", "5", "6", "7", "8", "9", ":", ";", "<", "=", ">", "?", "@",
      "A", "B", "C", "D", "E", "F", "G", "H", "I", "J", "K", "L", "M",
      "N", "O", "P", "Q", "R", "S", "T", "U", "V", "W", "X", "Y", "Z",
      "[", "\\", "]", "^", "_", "U+0060",
      "a", "b", "c", "d", "e", "f", "g", "h", "i", "j", "k", "l", "m",
      "n", "o", "p", "q", "r", "s", "t", "u", "v", "w", "x", "y", "z",
      "{", "|", "}", "~">>

\* ord(c)
Ord(c) == IF c = "\t" THEN 9 ELSE IF c = "\n" THEN 10 ELSE 31 + IndexIn(CodePoints, c)

\* a < b for two str: by code points, a proper prefix first
RECURSIVE StrLess(_, _)
StrLess(a, b) ==
    IF b = <<>> THEN FALSE
    ELSE IF a = <<>> THEN TRUE
    ELSE IF a[1] = b[1] THEN StrLess(Tail(a), Tail(b))
    ELSE Ord(a[1]) < Ord(b[1])

HexChars == <<"0", "1", "2", "3", "4", "5", "6", "7", "8", "9", "a", "b", "c", "d", "e", "f">>
IsHex(c) == Occurs(HexChars, LowerChar(c))
HexValue(c) == IndexIn(HexChars, LowerChar(c)) - 1

\* urllib.parse.unquote: %XX becomes the character with that code (the codes of
\* U+0020..U+007E); a % that no two hex digits follow stays
RECURSIVE unquote(_)
unquote(s) ==
    IF s = <<>> THEN <<>>
    ELSE IF s[1] = "%" /\ Len(s) >= 3 /\ IsHex(s[2]) /\ IsHex(s[3])
                /\ 16 * HexValue(s[2]) + HexValue(s[3]) \in 32..126
         THEN <<CodePoints[16 * HexValue(s[2]) + HexValue(s[3]) - 31]>>
                 \o unquote(SubSeq(s, 4, Len(s)))
         ELSE <<s[1]>> \o unquote(Tail(s))

\* s.replace("+", " ")
plus_to_space(s) == [i \in 1..Len(s) |-> IF s[i] = "+" THEN " " ELSE s[i]]

\* the index of the first c in s, or 0
Find(s, c) ==
    IF Occurs(s, c)
    THEN CHOOSE i \in 1..Len(s) : s[i] = c /\ \A j \in 1..(i - 1) : s[j] # c
    ELSE 0

\* s.split(sep) for a one-character sep
RECURSIVE split_on(_, _)
split_on(s, sep) ==
    LET n == Find(s, sep)
    IN  IF n = 0 THEN <<s>>
        ELSE <<SubSeq(s, 1, n - 1)>> \o split_on(SubSeq(s, n + 1, Len(s)), sep)

\* urllib.parse.parse_qsl(qs, keep_blank_values=True): the (name, value) pairs of
\* the non-empty fields, split at the first "=" and decoded
parse_qsl(qs) ==
    LET fields == SelectSeq(split_on(qs, "&"), LAMBDA f : f # <<>>)
        Name(f) == IF Find(f, "=") = 0 THEN f ELSE SubSeq(f, 1, Find(f, "=") - 1)
        Value(f) == IF Find(f, "=") = 0 THEN <<>> ELSE SubSeq(f, Find(f, "=") + 1, Len(f))
    IN  [i \in 1..Len(fields) |->
            <<PyStr(unquote(plus_to_space(Name(fields[i])))),
              PyStr(unquote(plus_to_space(Value(fields[i]))))>>]

\* dict(pairs): a later pair replaces the value of an earlier one with its key
RECURSIVE dict_of(_)
dict_of(pairs) ==
    IF pairs = <<>> THEN PyDict(<<>>)
    ELSE LET p == pairs[Len(pairs)]
         IN  DictSet(dict_of(SubSeq(pairs, 1, Len(pairs) - 1)), p[1], p[2])

\* d without the key k
DictDel(d, k) == PyDict(SelectSeq(d[2], LAMBDA item : item[1] # k))

\* sorted(items) for items of distinct str keys
RECURSIVE sorted(_)
sorted(items) ==
    IF items = <<>> THEN <<>>
    ELSE LET m == CHOOSE i \in 1..Len(items) :
                     \A j \in 1..Len(items) : j # i => StrLess(items[i][1][2], items[j][1][2])
         IN  <<items[m]>> \o sorted([i \in 1..(Len(items) - 1) |->
                                        IF i < m THEN items[i] ELSE items[i + 1]])

\* sep.join(lines)
RECURSIVE join(_, _)
join(sep, lines) ==
    IF lines = <<>> THEN <<>>
    ELSE IF Len(lines) = 1 THEN lines[1]
    ELSE lines[1] \o sep \o join(sep, Tail(lines))

K_hash == PyStr(<<"h", "a", "s", "h">>)
K_user == PyStr(<<"u", "s", "e", "r">>)
K_id == PyStr(<<"i", "d">>)

\* web_app.py:105: the fields of init_data
parsed_fields(init_data) == dict_of(parse_qsl(init_data))

\* a check string of the names of the fields alone
data_check_string_names(init_data) ==
    LET items == sorted(DictDel(parsed_fields(init_data), K_hash)[2])
    IN  join(<<"\n">>, [i \in 1..Len(items) |-> items[i][1][2]])

\* a check string of the fields in the order they arrive
data_check_string_unsorted(init_data) ==
    LET items == DictDel(parsed_fields(init_data), K_hash)[2]
    IN  join(<<"\n">>, [i \in 1..Len(items) |-> items[i][1][2] \o <<"=">> \o items[i][2][2]])

\* web_app.py:106,110-112: the check string of the fields other than hash
data_check_string(init_data) ==
    LET items == sorted(DictDel(parsed_fields(init_data), K_hash)[2])
    IN  join(<<"\n">>, [i \in 1..Len(items) |-> items[i][1][2] \o <<"=">> \o items[i][2][2]])

\* the characters of a str as one string
RECURSIVE Flat(_)
Flat(s) == IF s = <<>> THEN "" ELSE s[1] \o Flat(Tail(s))

\* web_app.py:113-118: hex HMAC-SHA256 of the message under the SHA-256 of the
\* token; the digest is one character that names the token and the message, so two
\* digests are equal only if both are (the hash is free of collisions)
hexdigest(token, message) ==
    <<"hmac-sha256(sha256(" \o Flat(token) \o ")," \o Flat(message) \o ")">>

\* web_app.py:113-118
calculated_hash(token, init_data) == PyStr(hexdigest(token[2], data_check_string(init_data)))

\* json.loads of one scalar: null, true, false, a number of digits or a string
\* without escapes
json_scalar(t) ==
    IF t = <<"n", "u", "l", "l">> THEN PyNone
    ELSE IF t = <<"t", "r", "u", "e">> THEN PyBool(TRUE)
    ELSE IF t = <<"f", "a", "l", "s", "e">> THEN PyBool(FALSE)
    ELSE IF t # <<>> /\ (\A i \in 1..Len(t) : IsDigit(t[i])) /\ (Len(t) = 1 \/ t[1] # "0")
    THEN PyInt(DigitRunValue(t, 0))
    ELSE IF Len(t) >= 2 /\ t[1] = "\"" /\ t[Len(t)] = "\""
              /\ \A i \in 2..(Len(t) - 1) : t[i] \notin {"\"", "\\", "\n", "\t"}
    THEN PyStr(SubSeq(t, 2, Len(t) - 1))
    ELSE Raised("JSONDecodeError")

\* json.loads for the texts a user field carries here: a scalar, an empty array,
\* an object of no or one member with a scalar value; any other text of these
\* characters is no JSON
json_loads(s) ==
    LET t == strip(s)
        inner == strip(SubSeq(t, 2, Len(t) - 1))
        colon == Find(inner, ":")
        key == json_scalar(strip(SubSeq(inner, 1, colon - 1)))
        value == json_scalar(strip(SubSeq(inner, colon + 1, Len(inner))))
    IN  IF Len(t) >= 2 /\ t[1] = "[" /\ t[Len(t)] = "]"
        THEN IF inner = <<>> THEN PyList(<<>>) ELSE Raised("JSONDecodeError")
        ELSE IF Len(t) >= 2 /\ t[1] = "{" /\ t[Len(t)] = "}"
        THEN IF inner = <<>> THEN PyDict(<<>>)
             ELSE IF colon = 0 \/ key[1] # "str" \/ IsRaised(value)
             THEN Raised("JSONDecodeError")
             ELSE PyDict(<< <<key, value>> >>)
        ELSE json_scalar(t)

\* the signature is not compared
verify_telegram_init_data_unchecked(token, init_data) ==
    LET parsed == DictDel(parsed_fields(init_data), K_hash)
        init_hash == DictGetOrNone(parsed_fields(init_data), K_hash)
        user_json == DictGetOrNone(parsed, K_user)
    IN  IF ~Truthy(token) THEN HTTPException(500, "no bot token")
        ELSE IF init_data = <<>> THEN HTTPException(400, "empty init data")
        ELSE IF ~Truthy(init_hash) THEN HTTPException(400, "no hash")
        ELSE IF ~Truthy(user_json) THEN HTTPException(400, "no user")
        ELSE IF IsRaised(json_loads(user_json[2])) THEN HTTPException(400, "bad user JSON")
        ELSE json_loads(user_json[2])

\* web_app.py:96-132, with TELEGRAM_BOT_TOKEN = token: the user, or the exception
verify_telegram_init_data(token, init_data) ==
    LET parsed == DictDel(parsed_fields(init_data), K_hash)
        init_hash == DictGetOrNone(parsed_fields(init_data), K_hash)
        user_json == DictGetOrNone(parsed, K_user)
    IN  IF ~Truthy(token) THEN HTTPException(500, "no bot token")
        ELSE IF init_data = <<>> THEN HTTPException(400, "empty init data")
        ELSE IF ~Truthy(init_hash) THEN HTTPException(400, "no hash")
        ELSE IF calculated_hash(token, init_data) # init_hash
        THEN HTTPException(403, "bad signature")
        ELSE IF ~Truthy(user_json) THEN HTTPException(400, "no user")
        ELSE IF IsRaised(json_loads(user_json[2])) THEN HTTPException(400, "bad user JSON")
        ELSE json_loads(user_json[2])

\* web_app.py:139-142, 783-785: str(user.get("id")), rejected when empty; a user
\* that is no JSON object has no get
user_id_of(user) ==
    IF IsRaised(user) THEN user
    ELSE IF ~IsDict(user) THEN Raised("AttributeError")
    ELSE IF str(DictGetOrNone(user, K_id)) = <<>> THEN HTTPException(400, "no user id")
    ELSE PyStr(str(DictGetOrNone(user, K_id)))

\* web_app.py:135-143: the user id of the X-Telegram-Init-Data header, None for a
\* request without one (an anonymous request), or the exception
get_telegram_user_from_request(token, header) ==
    IF ~Truthy(header) THEN PyNone
    ELSE user_id_of(verify_telegram_init_data(token, header[2]))

\* web_app.py:782-785: the user id telegram_session binds a dialog to
session_user_id(token, init_data) == user_id_of(verify_telegram_init_data(token, init_data))

(************* one call of verify_telegram_init_data on a payload **********)

\* the most fields a payload has
MaxFields == 3

\* fields of a payload, as they are URL-encoded
F_auth_date_1 == <<"a", "u", "t", "h", "_", "d", "a", "t", "e", "=", "1">>
F_auth_date_2 == <<"a", "u", "t", "h", "_", "d", "a", "t", "e", "=", "2">>
F_user_7 == <<"u", "s", "e", "r", "=", "%", "7", "B", "%", "2", "2", "i", "d", "%", "2", "2", "%", "3", "A", "7", "%", "7", "D">>
F_user_no_id == <<"u", "s", "e", "r", "=", "%", "7", "B", "%", "7", "D">>
F_user_bad == <<"u", "s", "e", "r", "=", "x">>
F_user_list == <<"u", "s", "e", "r", "=", "[", "]">>
F_hash_empty == <<"h", "a", "s", "h", "=">>
F_hash_wrong == <<"h", "a", "s", "h", "=", "0", "0">>
SignedFields ==
    {F_auth_date_1, F_auth_date_2, F_user_7, F_user_no_id, F_user_bad, F_user_list}

\* TELEGRAM_BOT_TOKEN (web_app.py:42): set, or missing from the environment
BotToken == PyStr(<<"t", "o", "k", "e", "n">>)
BotTokens == {BotToken, PyNone}

\* the payload of the fields
InitData(fields) == join(<<"&">>, fields)

\* the hash field the platform issues for the fields
F_hash_of(fields) ==
    <<"h", "a", "s", "h", "=">> \o calculated_hash(BotToken, InitData(fields))[2]

\* fields with the field f put in at place p
Inserted(fields, f, p) == SubSeq(fields, 1, p) \o <<f>> \o SubSeq(fields, p + 1, Len(fields))

\* the payloads: up to MaxFields fields, no hash or one that is empty, wrong or
\* the one issued for the other fields, at any place
Payloads ==
    LET signed == UNION { [1..n -> SignedFields] : n \in 0..(MaxFields - 1) }
    IN  signed \cup [1..MaxFields -> SignedFields]
        \cup UNION { { Inserted(fs, h, p) :
                          h \in {F_hash_empty, F_hash_wrong, F_hash_of(fs)},
                          p \in 0..Len(fs) } : fs \in signed }

\* the values a field is changed to
TamperValues == {<<"9">>, <<>>, <<"%", "3", "1">>}

AuthInit ==
    /\ arg \in [token : BotTokens, fields : Payloads]
    /\ ret = NotCalled
    /\ ret2 = NotCalled
    /\ state = create_initial_state
    /\ results = <<>>
    /\ turn = NoTurn
    /\ exam_topic = PyNone
    /\ NoWeb

\* what verify_telegram_init_data makes of the fields: the user or the exception,
\* and the hash it computed (None when it computed none)
Verification(token, fields) ==
    [user |-> verify_telegram_init_data(token, InitData(fields)),
     calculated |-> IF Truthy(token) THEN calculated_hash(token, InitData(fields)) ELSE PyNone]

\* the name of a field
FieldName(f) == IF Find(f, "=") = 0 THEN f ELSE SubSeq(f, 1, Find(f, "=") - 1)

\* verify_telegram_init_data(init_data)
Verify ==
    /\ ret = NotCalled
    /\ ret' = <<"verified", Verification(arg.token, arg.fields)>>
    /\ UNCHANGED <<state, results, turn, exam_topic, arg, ret2>>
    /\ UNCHANGED web

\* verify_telegram_init_data of the payload with two of its fields swapped
Reorder ==
    /\ ret # NotCalled
    /\ ret2 = NotCalled
    /\ \E i, j \in 1..Len(arg.fields) :
          /\ i < j
          /\ ret2' = <<"swapped",
                       [i |-> i, j |-> j,
                        verification |->
                            Verification(arg.token,
                                         [arg.fields EXCEPT ![i] = arg.fields[j],
                                                            ![j] = arg.fields[i]])]>>
    /\ UNCHANGED <<state, results, turn, exam_topic, arg, ret>>
    /\ UNCHANGED web

\* verify_telegram_init_data of the payload with the value of a field changed
Tamper ==
    /\ ret # NotCalled
    /\ ret2 = NotCalled
    /\ \E i \in 1..Len(arg.fields), v \in TamperValues :
          ret2' = <<"tampered",
                    [i |-> i, value |-> v,
                     verification |->
                         Verification(arg.token,
                                      [arg.fields EXCEPT
                                          ![i] = FieldName(arg.fields[i]) \o <<"=">> \o v])]>>
    /\ UNCHANGED <<state, results, turn, exam_topic, arg, ret>>
    /\ UNCHANGED web

\* web_app.py:751,894: a request with the payload in its X-Telegram-Init-Data header
Authenticate ==
    /\ ret # NotCalled
    /\ ret2 = NotCalled
    /\ ret2' = <<"request",
                 get_telegram_user_from_request(arg.token, PyStr(InitData(arg.fields)))>>
    /\ UNCHANGED <<state, results, turn, exam_topic, arg, ret>>
    /\ UNCHANGED web

\* web_app.py:782-785: a session request with the payload as init_data
SessionUser ==
    /\ ret # NotCalled
    /\ ret2 = NotCalled
    /\ ret2' = <<"session", session_user_id(arg.token, InitData(arg.fields))>>
    /\ UNCHANGED <<state, results, turn, exam_topic, arg, ret>>
    /\ UNCHANGED web

AuthNext == Verify \/ Reorder \/ Tamper \/ Authenticate \/ SessionUser

SpecAuth == AuthInit /\ [][AuthNext]_vars

(********************* web_app.py: /telegram/session ***********************)

\* the most /telegram/session requests that are sent
MaxSessions == 3

\* a dialog is bound to the owner
HasOwnerDialog(ds, provider, external_id) ==
    \E i \in 1..Len(ds) : ds[i].owner = <<provider, external_id>>

\* the dialog bound to the owner (the first one, were there several), or None
get_dialog_by_owner(ds, provider, external_id) ==
    IF HasOwnerDialog(ds, provider, external_id)
    THEN ds[CHOOSE i \in 1..Len(ds) :
                /\ ds[i].owner = <<provider, external_id>>
                /\ \A j \in 1..(i - 1) : ds[j].owner # <<provider, external_id>>]
    ELSE PyNone

\* the dialog is bound to the owner
link_dialog_owner(ds, dialog_id, provider, external_id) ==
    [i \in 1..Len(ds) |->
        IF ds[i].id = dialog_id
        THEN [ds[i] EXCEPT !.owner = <<provider, external_id>>]
        ELSE ds[i]]

\* web_app.py:66-74: the tables with the new dialog, its greeting and its owner
\* (owner is <<>> for a dialog of nobody), and the dialog returned
create_dialog_with_greeting(ds, msgs, seq, owner) ==
    LET created == create_dialog(ds, seq, create_initial_state)
    IN  [dialogs |-> IF owner # <<>>
                     THEN link_dialog_owner(created, seq + 1, owner[1], owner[2])
                     ELSE created,
         dialog_messages |-> add_dialog_message(msgs, seq + 1, "assistant", GREETING_TEXT),
         sqlite_sequence |-> seq + 1,
         dialog_id |-> seq + 1]

\* the lookup is left out: every call creates a dialog
get_or_create_owner_dialog_always(ds, msgs, seq, provider, external_id) ==
    create_dialog_with_greeting(ds, msgs, seq, <<provider, external_id>>)

\* web_app.py:77-85
get_or_create_owner_dialog(ds, msgs, seq, provider, external_id) ==
    IF HasOwnerDialog(ds, provider, external_id)
    THEN [dialogs |-> ds, dialog_messages |-> msgs, sqlite_sequence |-> seq,
          dialog_id |-> get_dialog_by_owner(ds, provider, external_id).id]
    ELSE create_dialog_with_greeting(ds, msgs, seq, <<provider, external_id>>)

F_user_8 == <<"u", "s", "e", "r", "=", "%", "7", "B", "%", "2", "2", "i", "d", "%", "2", "2", "%", "3", "A", "8", "%", "7", "D">>

\* the fields with the hash the platform issues for them
Signed(fields) == Append(fields, F_hash_of(fields))

\* the init_data of the session requests: two users, one of them with two
\* payloads, a user without id and a payload with a wrong hash
SessionPayloads ==
    { InitData(Signed(<<F_user_7>>)), InitData(Signed(<<F_auth_date_1, F_user_7>>)),
      InitData(Signed(<<F_user_8>>)), InitData(Signed(<<F_user_no_id>>)),
      InitData(<<F_user_7, F_hash_wrong>>) }

\* web_app.py:88-93: the tables after ensure_default_dialog, called when the
\* module is loaded
SessionInit ==
    /\ dialogs = create_dialog_with_greeting(<<>>, <<>>, 0, <<>>).dialogs
    /\ dialog_messages = create_dialog_with_greeting(<<>>, <<>>, 0, <<>>).dialog_messages
    /\ sqlite_sequence = 1
    /\ requests = <<>>
    /\ results = <<>>
    /\ state = create_initial_state
    /\ turn = NoTurn
    /\ exam_topic = PyNone
    /\ arg = PyNone
    /\ ret = NotCalled
    /\ ret2 = NotCalled

\* web_app.py:780-789: POST /telegram/session; a request is recorded with the
\* user id (or the exception), the dialog it is answered with and whether that
\* dialog was created for it
telegram_session ==
    /\ Len(requests) < MaxSessions
    /\ \E init_data \in SessionPayloads :
          LET user_id == session_user_id(BotToken, init_data)
              bound == get_or_create_owner_dialog(dialogs, dialog_messages, sqlite_sequence,
                                                  "telegram", user_id[2])
          IN  IF IsRaised(user_id)
              THEN /\ requests' = Append(requests,
                                         [init_data |-> init_data, user_id |-> user_id,
                                          pc |-> "rejected", dialog_id |-> 0,
                                          created |-> FALSE])
                   /\ UNCHANGED <<dialogs, dialog_messages, sqlite_sequence>>
              ELSE /\ requests' = Append(requests,
                                         [init_data |-> init_data, user_id |-> user_id,
                                          pc |-> "done", dialog_id |-> bound.dialog_id,
                                          created |-> bound.sqlite_sequence # sqlite_sequence])
                   /\ dialogs' = bound.dialogs
                   /\ dialog_messages' = bound.dialog_messages
                   /\ sqlite_sequence' = bound.sqlite_sequence
    /\ UNCHANGED <<results, state, turn, exam_topic, arg, ret, ret2>>

SessionNext == telegram_session \/ CreateDialog

SpecSession == SessionInit /\ [][SessionNext]_vars

(************************ the percent of a test result *********************)

\* the most questions an exam has
MaxTotal == 50

\* a topic, an answer key of up to MaxTotal questions and a submission answer
\* analysis found to have score right answers
PercentInit ==
    /\ arg \in { <<score, total>> : score \in 0..MaxTotal, total \in 0..MaxTotal }
    /\ arg[1] <= arg[2]
    /\ ret = NotCalled
    /\ ret2 = NotCalled
    /\ state = create_initial_state
    /\ results = <<>>
    /\ turn = NoTurn
    /\ exam_topic = PyNone
    /\ NoWeb

\* main.py:197-205: the percent is computed and the result is saved
SaveResult ==
    /\ results = <<>>
    /\ results' = Append(results,
                         save_test_result(Theme, arg[1], arg[2],
                                          percent_of(arg[1], arg[2]), T_answers))
    /\ UNCHANGED <<state, turn, exam_topic, arg, ret, ret2>>
    /\ UNCHANGED web

PercentNext == SaveResult

SpecPercent == PercentInit /\ [][PercentNext]_vars

(**************** web_app.py: turns on a dialog with an exam ***************)

\* the rows of test_results are deleted with the dialog
delete_dialog_results(ds, msgs, rows, dialog_id) ==
    [dialogs |-> SelectSeq(ds, LAMBDA d : d.id # dialog_id),
     dialog_messages |-> SelectSeq(msgs, LAMBDA m : m.dialog_id # dialog_id),
     results |-> <<>>]

\* the messages of the dialog are left behind
delete_dialog_orphans(ds, msgs, rows, dialog_id) ==
    [dialogs |-> SelectSeq(ds, LAMBDA d : d.id # dialog_id),
     dialog_messages |-> msgs,
     results |-> rows]

\* sqlite_store.py:195-198: the tables after the DELETE; the messages of the
\* dialog go with it (ON DELETE CASCADE, sqlite_store.py:51)
delete_dialog(ds, msgs, rows, dialog_id) ==
    [dialogs |-> SelectSeq(ds, LAMBDA d : d.id # dialog_id),
     dialog_messages |-> SelectSeq(msgs, LAMBDA m : m.dialog_id # dialog_id),
     results |-> rows]

\* default dialogs are never created again
ensure_default_dialog_never(ds, msgs, seq) ==
    [dialogs |-> ds, dialog_messages |-> msgs, sqlite_sequence |-> seq, dialog_id |-> 0]

\* web_app.py:88-93: the tables with a default dialog if there was no dialog
ensure_default_dialog(ds, msgs, seq) ==
    IF ds = <<>>
    THEN create_dialog_with_greeting(ds, msgs, seq, <<>>)
    ELSE [dialogs |-> ds, dialog_messages |-> msgs, sqlite_sequence |-> seq, dialog_id |-> 0]

\* a request for an exam
T_test == <<"t", "e", "s", "t">>

\* the turn that installed the exam: T_test dispatched to the examiner on the
\* default dialog
ExamTurnOutcome ==
    CHOOSE o \in ExaminerBranch(T_test, create_initial_state) :
        DictGet(o.state, K_current_test) = Key_ABC

\* the default dialog after the turn that installed the exam
ExamInit ==
    /\ dialogs = update_dialog_state(create_dialog(<<>>, 0, create_initial_state), 1,
                                     ExamTurnOutcome.state)
    /\ sqlite_sequence = 1
    /\ dialog_messages =
          add_dialog_message(
              add_dialog_message(
                  add_dialog_message(<<>>, 1, "assistant", GREETING_TEXT),
                  1, "user", T_test),
              1, "assistant", ExamTurnOutcome.answer)
    /\ requests = <<>>
    /\ results = <<>>
    /\ state = create_initial_state
    /\ turn = NoTurn
    /\ exam_topic = PyNone
    /\ arg = PyNone
    /\ ret = NotCalled
    /\ ret2 = NotCalled

\* web_app.py:761-768: DELETE /dialogs/{dialog_id} of a dialog that exists
RemoveDialog ==
    /\ sqlite_sequence < MaxDialogs
    /\ \E dialog_id \in 1..MaxDialogs :
          /\ HasDialog(dialogs, dialog_id)
          /\ LET deleted == delete_dialog(dialogs, dialog_messages, results, dialog_id)
                 ensured == ensure_default_dialog(deleted.dialogs, deleted.dialog_messages,
                                                  sqlite_sequence)
             IN  /\ dialogs' = ensured.dialogs
                 /\ dialog_messages' = ensured.dialog_messages
                 /\ sqlite_sequence' = ensured.sqlite_sequence
                 /\ results' = deleted.results
    /\ UNCHANGED <<requests, state, turn, exam_topic, arg, ret, ret2>>

ExamNext == ChatReceive \/ ChatResume \/ RemoveDialog

SpecExam == ExamInit /\ [][ExamNext]_vars

(************ web_app.py: creating, renaming, deleting dialogs *************)

\* web_app.py:776: the title of a dialog renamed to a blank title
T_untitled == <<"fixed", "Bez nazvaniya">>

\* the titles rename requests carry
RenameTitles == {<<"m", "y">>, <<" ">>}

\* sqlite_store.py:182-192
rename_dialog(ds, dialog_id, title) ==
    [i \in 1..Len(ds) |-> IF ds[i].id = dialog_id THEN [ds[i] EXCEPT !.title = title] ELSE ds[i]]

\* web_app.py:771-777: PATCH /dialogs/{dialog_id} of a dialog that exists
RenameDialog ==
    /\ \E dialog_id \in 1..sqlite_sequence, title \in RenameTitles :
          /\ HasDialog(dialogs, dialog_id)
          /\ dialogs' = rename_dialog(dialogs, dialog_id,
                                      IF strip(title) # <<>> THEN strip(title) ELSE T_untitled)
    /\ UNCHANGED <<dialog_messages, sqlite_sequence, requests, results>>
    /\ UNCHANGED <<state, turn, exam_topic, arg, ret, ret2>>

\* web_app.py:761-766: DELETE /dialogs/{dialog_id} up to the commit of
\* delete_dialog; the request is in the thread pool with ensure_default_dialog
\* to run (pc "ensure"), or was answered not found (pc "rejected")
RemoveDelete ==
    /\ Len(requests) < MaxRequests
    /\ \E dialog_id \in 1..(sqlite_sequence + 1) :
          IF HasDialog(dialogs, dialog_id)
          THEN LET deleted == delete_dialog(dialogs, dialog_messages, results, dialog_id)
               IN  /\ dialogs' = deleted.dialogs
                   /\ dialog_messages' = deleted.dialog_messages
                   /\ requests' = Append(requests, [dialog_id |-> dialog_id, pc |-> "ensure"])
          ELSE /\ requests' = Append(requests, [dialog_id |-> dialog_id, pc |-> "rejected"])
               /\ UNCHANGED <<dialogs, dialog_messages>>
    /\ UNCHANGED <<sqlite_sequence, results, state, turn, exam_topic, arg, ret, ret2>>

\* web_app.py:767-768: ensure_default_dialog, and the request is answered
RemoveEnsure ==
    /\ \E i \in 1..Len(requests) :
          /\ requests[i].pc = "ensure"
          /\ LET ensured == ensure_default_dialog(dialogs, dialog_messages, sqlite_sequence)
             IN  /\ dialogs' = ensured.dialogs
                 /\ dialog_messages' = ensured.dialog_messages
                 /\ sqlite_sequence' = ensured.sqlite_sequence
          /\ requests' = [requests EXCEPT ![i].pc = "done"]
    /\ UNCHANGED <<results, state, turn, exam_topic, arg, ret, ret2>>

DialogsNext == CreateDialog \/ RenameDialog \/ RemoveDelete \/ RemoveEnsure

SpecDialogs == ChatInit /\ [][DialogsNext]_vars

(************** web_app.py: requests with Telegram init data **************)

\* the X-Telegram-Init-Data header of a request: none, user 7 (who has a
\* dialog), user 8 (who has none), a wrong hash
AccessHeaders ==
    { PyNone, PyStr(InitData(Signed(<<F_user_7>>))), PyStr(InitData(Signed(<<F_user_8>>))),
      PyStr(InitData(<<F_user_7, F_hash_wrong>>)) }

\* the user may address any dialog once one is bound to them
owner_check_any(ds, dialog_id, tg_user_id) ==
    IF Truthy(tg_user_id) /\ ~HasOwnerDialog(ds, "telegram", tg_user_id[2])
    THEN HTTPException(403, "no access to this dialog")
    ELSE PyNone

\* web_app.py:751-755, 895-899: the error of a request of tg_user_id for a dialog
\* that is not the one bound to them, or None
owner_check(ds, dialog_id, tg_user_id) ==
    IF Truthy(tg_user_id)
       /\ (\/ ~HasOwnerDialog(ds, "telegram", tg_user_id[2])
           \/ get_dialog_by_owner(ds, "telegram", tg_user_id[2]).id # dialog_id)
    THEN HTTPException(403, "no access to this dialog")
    ELSE PyNone

\* web_app.py:747-755, 891-899: the error a request for the dialog ends with
\* before anything of the dialog is used, or None
dialog_access(ds, dialog_id, header) ==
    IF ~HasDialog(ds, dialog_id) THEN HTTPException(404, "dialog not found")
    ELSE LET tg_user_id == get_telegram_user_from_request(BotToken, header)
         IN  IF IsRaised(tg_user_id) THEN tg_user_id
             ELSE owner_check(ds, dialog_id, tg_user_id)

\* a request with its header: kind is "messages" or "chat", answer the error or
\* what is read out to the client
AccessRequest(kind, dialog_id, header, message, pc, answer) ==
    [kind |-> kind, dialog_id |-> dialog_id, header |-> header, message |-> message,
     pc |-> pc, answer |-> answer]

\* web_app.py:88-93, 780-789: the tables after start-up and the session request
\* of user 7: the default dialog and the dialog bound to (telegram, 7)
AccessInit ==
    /\ LET started == create_dialog_with_greeting(<<>>, <<>>, 0, <<>>)
           bound == get_or_create_owner_dialog(started.dialogs, started.dialog_messages,
                                               started.sqlite_sequence, "telegram", <<"7">>)
       IN  /\ dialogs = bound.dialogs
           /\ dialog_messages = bound.dialog_messages
           /\ sqlite_sequence = bound.sqlite_sequence
    /\ requests = <<>>
    /\ results = <<>>
    /\ state = create_initial_state
    /\ turn = NoTurn
    /\ exam_topic = PyNone
    /\ arg = PyNone
    /\ ret = NotCalled
    /\ ret2 = NotCalled

\* web_app.py:745-758: GET /dialogs/{dialog_id}/messages
read_dialog_messages ==
    /\ Len(requests) < MaxRequests
    /\ \E dialog_id \in 1..(MaxDialogs + 1), header \in AccessHeaders :
          LET error == dialog_access(dialogs, dialog_id, header)
          IN  requests' =
                Append(requests,
                       IF error # PyNone
                       THEN AccessRequest("messages", dialog_id, header, <<>>, "rejected", error)
                       ELSE AccessRequest("messages", dialog_id, header, <<>>, "done",
                                          <<"messages",
                                            get_dialog_messages(dialog_messages, dialog_id)>>))
    /\ UNCHANGED <<dialogs, dialog_messages, sqlite_sequence, results>>
    /\ UNCHANGED <<state, turn, exam_topic, arg, ret, ret2>>

\* web_app.py:831-928: POST /chat with a header and without a file
chat ==
    /\ Len(requests) < MaxRequests
    /\ \E dialog_id \in 1..(MaxDialogs + 1), header \in AccessHeaders,
          message \in {T_answers, T_empty} :
          LET error == IF message = <<>> THEN HTTPException(400, "no message and no file")
                       ELSE dialog_access(dialogs, dialog_id, header)
          IN  IF error # PyNone
              THEN /\ requests' = Append(requests,
                                         AccessRequest("chat", dialog_id, header, message,
                                                       "rejected", error))
                   /\ UNCHANGED <<dialogs, dialog_messages, results>>
              ELSE \E e \in chat_try(ChatRequest(dialog_id, message, FALSE, "ocr",
                                                 normalize_state(get_dialog(dialogs,
                                                                            dialog_id).state)),
                                     message, dialogs, dialog_messages, results) :
                      /\ Len(e.results) <= MaxResults
                      /\ requests' = Append(requests,
                                            AccessRequest("chat", dialog_id, header, message,
                                                          e.request.pc, e.request.answer))
                      /\ dialogs' = e.dialogs
                      /\ dialog_messages' = e.dialog_messages
                      /\ results' = e.results
    /\ UNCHANGED <<sqlite_sequence, state, turn, exam_topic, arg, ret, ret2>>

AccessNext == read_dialog_messages \/ chat

SpecAccess == AccessInit /\ [][AccessNext]_vars

(********** web_app.py: /telegram/session requests side by side ************)

\* the users whose clients send session requests
SessionUsers == {<<"7">>, <<"8">>}

\* a /telegram/session request of a verified user_id in the thread pool: pc is
\* the statement of create_dialog_with_greeting it is to run next ("create",
\* "greet", "link") or "done"; dialog_id is the dialog it found or created
SessionRequest(user_id, pc, dialog_id, created) ==
    [user_id |-> user_id, pc |-> pc, dialog_id |-> dialog_id, created |-> created]

\* web_app.py:780-789, 82-84: the request is received and looks its dialog up
SessionLookup ==
    /\ Len(requests) < MaxSessions
    /\ \E user_id \in SessionUsers :
          requests' =
            Append(requests,
                   IF HasOwnerDialog(dialogs, "telegram", user_id)
                   THEN SessionRequest(user_id, "done",
                                       get_dialog_by_owner(dialogs, "telegram", user_id).id,
                                       FALSE)
                   ELSE SessionRequest(user_id, "create", 0, FALSE))
    /\ UNCHANGED <<dialogs, dialog_messages, sqlite_sequence, results>>
    /\ UNCHANGED <<state, turn, exam_topic, arg, ret, ret2>>

\* web_app.py:70: create_dialog commits the new row
SessionCreate ==
    /\ \E i \in 1..Len(requests) :
          /\ requests[i].pc = "create"
          /\ dialogs' = create_dialog(dialogs, sqlite_sequence, create_initial_state)
          /\ sqlite_sequence' = sqlite_sequence + 1
          /\ requests' = [requests EXCEPT ![i] = SessionRequest(requests[i].user_id, "greet",
                                                                sqlite_sequence + 1, TRUE)]
    /\ UNCHANGED <<dialog_messages, results, state, turn, exam_topic, arg, ret, ret2>>

\* web_app.py:71: add_dialog_message commits the greeting
SessionGreet ==
    /\ \E i \in 1..Len(requests) :
          /\ requests[i].pc = "greet"
          /\ dialog_messages' = add_dialog_message(dialog_messages, requests[i].dialog_id,
                                                   "assistant", GREETING_TEXT)
          /\ requests' = [requests EXCEPT ![i].pc = "link"]
    /\ UNCHANGED <<dialogs, sqlite_sequence, results>>
    /\ UNCHANGED <<state, turn, exam_topic, arg, ret, ret2>>

\* web_app.py:72-74, 789: link_dialog_owner binds the dialog and the request is
\* answered with it
SessionLink ==
    /\ \E i \in 1..Len(requests) :
          /\ requests[i].pc = "link"
          /\ dialogs' = link_dialog_owner(dialogs, requests[i].dialog_id, "telegram",
                                          requests[i].user_id)
          /\ requests' = [requests EXCEPT ![i].pc = "done"]
    /\ UNCHANGED <<dialog_messages, sqlite_sequence, results>>
    /\ UNCHANGED <<state, turn, exam_topic, arg, ret, ret2>>

RaceNext == SessionLookup \/ SessionCreate \/ SessionGreet \/ SessionLink

SpecRace == SessionInit /\ [][RaceNext]_vars

(******************************** claims ***********************************)

Normalized == ret # NotCalled
Renormalized == ret2 # NotCalled
ArgTest == DictGetOrNone(arg, K_current_test)

\* C1: normalize_state is idempotent: normalising the result of normalize_state
\* again returns it unchanged, for every input (an input on which the first call
\* raises has no result to normalise; the exception stands for both sides).
C1_Idempotent == Renormalized => ret2 = ret

\* C1 witness: a mapping whose answer key was rebuilt has been normalised twice.
C1_Witness ==
    /\ Renormalized /\ ~IsRaised(ret)
    /\ IsDict(arg) /\ IsDict(ArgTest) /\ ret # arg
    /\ \E i \in 1..Len(ArgTest[2]) : IsRaised(int(ArgTest[2][i][1]))
    /\ \E i \in 1..Len(ArgTest[2]) : ~IsRaised(int(ArgTest[2][i][1]))

Complete(st) ==
    /\ IsDict(st)
    /\ \A k \in {K_tutor_history, K_last_topic, K_current_test, K_problem_solver} : DictHas(st, k)
    /\ IsDict(DictGet(st, K_problem_solver))
    /\ \A k \in {K_active, K_topic, K_steps, K_current_step} :
          DictHas(DictGet(st, K_problem_solver), k)

\* C2: normalize_state is total: for any input it returns, without an error, a
\* state with tutor_history, last_topic, current_test and a problem_solver holding
\* active, topic, steps and current_step; a non-mapping yields the fresh default state.
C2_Total ==
    Normalized =>
        /\ ~IsRaised(ret)
        /\ Complete(ret)
        /\ (~IsDict(arg) => ret = create_initial_state)

\* the items of the input answer key whose key int() accepts
Parsable(items) == {i \in 1..Len(items) : ~IsRaised(int(items[i][1]))}

\* C3: a current_test that is a mapping is rebuilt as a mapping from the integer
\* question index to the upper-cased answer, entries whose key is no integer being
\* dropped (of two entries with the same index the later one counts); when no entry
\* survives current_test is null, not an empty mapping.
C3_CurrentTestRebuilt ==
    (Normalized /\ ~IsRaised(ret) /\ IsDict(arg) /\ IsDict(ArgTest)) =>
        LET items == ArgTest[2]
            ok == Parsable(items)
            out == DictGet(ret, K_current_test)
        IN  /\ ok = {} => out = PyNone
            /\ ok # {} =>
                  /\ IsDict(out)
                  /\ DistinctKeys(out[2])
                  /\ {out[2][j][1] : j \in 1..Len(out[2])} = {int(items[i][1]) : i \in ok}
                  /\ \A i \in ok :
                        (\A i2 \in ok : i2 > i => int(items[i2][1]) # int(items[i][1]))
                        => DictGet(out, int(items[i][1])) = PyStr(upper(str(items[i][2])))
            /\ ArgTest = ExampleTest =>
                  out = PyDict(<< <<PyInt(1), PyStr(<<"A">>)>>, <<PyInt(2), PyStr(<<"C">>)>> >>)

\* C3 witness: an answer key with one integer and one non-integer key was rebuilt.
C3_Witness ==
    /\ Normalized /\ ~IsRaised(ret) /\ IsDict(arg) /\ IsDict(ArgTest)
    /\ Len(ArgTest[2]) = 2 /\ Cardinality(Parsable(ArgTest[2])) = 1
    /\ Len(DictGet(ret, K_current_test)[2]) = 1

\* C3, the empty case: an answer key without entries became null.
C3_WitnessEmpty ==
    /\ Normalized /\ IsDict(arg) /\ ArgTest = PyDict(<<>>)
    /\ DictGet(ret, K_current_test) = PyNone

Called == ret[1] = "outcome"
CallText == arg[1]
CallRequest == strip(arg[1])
\* the state the call works on, main.py:125
CallState == normalize_state(arg[2])
CallActive == Truthy(DictGet(DictGet(CallState, K_problem_solver), K_active))
CallIsProgress == startswith(lower(CallRequest), W_progress)
CallIsYesNo == lower(CallRequest) \in yes_words \cup no_words
Continued == ret[2].calls = <<"continue_problem_solver">>
Classified == ret[2].calls # <<>> /\ ret[2].calls[1] = "run_moderator"

SameButSolver(a, b) ==
    \A k \in {K_tutor_history, K_last_topic, K_current_test} : DictGet(a, k) = DictGet(b, k)

\* C4 as stated: with problem_solver.active true the turn goes to the solver
\* continuation (no classifier call; tutor_history, last_topic and current_test
\* unchanged) exactly when the trimmed lower-cased input is one of the yes/no
\* words, and any other input that is no progress command goes to the classifier.
C4_Original ==
    (Called /\ CallActive) =>
        /\ Continued <=> CallIsYesNo
        /\ Continued => (ret[2].classified = <<>> /\ SameButSolver(ret[2].state, CallState))
        /\ (~CallIsYesNo /\ ~CallIsProgress) => Classified

\* C4 amended: as C4_Original, the last part for inputs that are not blank.
C4_RouterPrecedence ==
    (Called /\ CallActive) =>
        /\ Continued <=> CallIsYesNo
        /\ Continued => (ret[2].classified = <<>> /\ SameButSolver(ret[2].state, CallState))
        /\ (~CallIsYesNo /\ ~CallIsProgress /\ CallRequest # <<>>) => Classified

\* C4 witness: a bare yes was consumed by the continuation while a test is outstanding.
C4_Witness ==
    /\ Called /\ CallActive /\ Continued
    /\ CallText = <<"\t">> \o T_yes \o <<" ">>
    /\ DictGet(CallState, K_current_test) # PyNone
    /\ ret[2].state # CallState

\* C4, the other direction: a reply that only begins with a yes word went to the
\* classifier although the solver was active.
C4_WitnessInexact ==
    Called /\ CallActive /\ CallText = T_yes_and_more /\ Classified

\* C5: a blank input (empty after trimming) gets the fixed prompt-for-input reply,
\* calls no classifier, agent or continuation, and returns the normalised input
\* state, also when problem_solver.active is true.
C5_BlankInput ==
    (Called /\ CallRequest = <<>>) =>
        /\ ret[2].answer = Reply_EnterRequest
        /\ ret[2].calls = <<>>
        /\ ret[2].saved = <<>>
        /\ ret[2].state = CallState

\* C5 witness: whitespace was sent while a walkthrough was active.
C5_Witness ==
    Called /\ CallText = T_blank /\ CallActive /\ ret[2].answer = Reply_EnterRequest

\* C6: an input whose trimmed lower-cased text starts with "progress" goes to the
\* progress reporter and nothing else: no classifier call, and the returned state is
\* the normalised input state, whether or not a solver is active or a test outstanding.
C6_ProgressOnly ==
    (Called /\ CallIsProgress) =>
        /\ ret[2].calls = <<"show_progress">>
        /\ ret[2].classified = <<>>
        /\ ret[2].saved = <<>>
        /\ ret[2].state = CallState
        /\ ret[2].answer = show_progress(arg[3], parse_progress_command(CallRequest)[2])

\* C6 witness: "Progressive" was sent with a solver active and a test outstanding.
C6_Witness ==
    /\ Called /\ CallText = T_progressive /\ CallActive
    /\ DictGet(CallState, K_current_test) # PyNone
    /\ ret[2].calls = <<"show_progress">>

Parsed == ret[1] = "parsed"

\* C7 as stated: "progress" gives (true, null), "Progress planets" gives
\* (true, "planets") and "progressive" gives (true, "ive").
C7_Original ==
    Parsed =>
        /\ arg = W_progress => ret[2] = <<TRUE, PyNone>>
        /\ arg = W_Progress_planets => ret[2] = <<TRUE, PyStr(W_planets)>>
        /\ arg = W_progressive => ret[2] = <<TRUE, PyStr(<<"i", "v", "e">>)>>

\* C7 amended: "progress" gives (true, null), "Progress planets" gives
\* (true, "planets") and "progressive" gives (true, null): the filter is what
\* follows the first whitespace-separated token, and "progressive" is one token.
C7_ProgressParsing ==
    Parsed =>
        /\ arg = W_progress => ret[2] = <<TRUE, PyNone>>
        /\ arg = W_Progress_planets => ret[2] = <<TRUE, PyStr(W_planets)>>
        /\ arg = W_progressive => ret[2] = <<TRUE, PyNone>>

\* C7 witness: "progressive" was parsed as a progress command.
C7_Witness == Parsed /\ arg = W_progressive /\ ret[2][1]

\* C8: when the classifier selects the answer-analyser and no test is outstanding,
\* the reply is the fixed "nothing to grade" message, nothing is saved and the
\* returned state is the state before the turn, whatever the topic-changed signal.
C8_NothingToGrade ==
    (Called /\ ret[2].classified # <<>> /\ ret[2].classified[1] = 3
            /\ DictGet(CallState, K_current_test) = PyNone) =>
        /\ ret[2].answer = Reply_NoTest
        /\ ret[2].saved = <<>>
        /\ ret[2].state = CallState

\* C9: when the classifier returns a selector outside 1..5, the reply is the fixed
\* "unrecognized mode" message, no agent is called and the returned state is the
\* state before the turn, whatever the topic-changed signal.
C9_UnknownSelector ==
    (Called /\ ret[2].classified # <<>> /\ ret[2].classified[1] \notin 1..5) =>
        /\ ret[2].answer = Reply_UnknownMode
        /\ ret[2].calls = <<"run_moderator">>
        /\ ret[2].state = CallState

\* the turn graded an outstanding test
Graded ==
    /\ turn'.classified # <<>> /\ turn'.classified[1] = 3
    /\ DictGet(normalize_state(state), K_current_test) # PyNone

\* C10 as stated: a turn saves exactly one TestResult if it is dispatched to the
\* answer-analyser while a test is outstanding and none otherwise; the topic of that
\* TestResult is the topic of the exam being graded, and current_test is null after.
C10_Original ==
    [][ /\ results' = results \o turn'.saved
        /\ Len(turn'.saved) = IF Graded THEN 1 ELSE 0
        /\ Graded => /\ turn'.saved[1].topic = exam_topic
                     /\ DictGet(state', K_current_test) = PyNone ]_vars

\* C10 amended: a turn saves exactly one TestResult if it is dispatched to the
\* answer-analyser while a test is outstanding and none otherwise; the topic of that
\* TestResult is the last_topic the turn returns (the input itself when the
\* classifier signalled a topic change), and current_test is null after the turn.
C10_OneResultPerGrading ==
    [][ /\ results' = results \o turn'.saved
        /\ Len(turn'.saved) = IF Graded THEN 1 ELSE 0
        /\ Graded => /\ turn'.saved[1].topic = DictGet(state', K_last_topic)
                     /\ DictGet(state', K_current_test) = PyNone ]_vars

\* C10 witness: a test was graded and its result saved under the exam's topic.
C10_Witness ==
    /\ turn.called /\ turn.classified # <<>> /\ turn.classified[1] = 3
    /\ Len(turn.saved) = 1 /\ results = turn.saved
    /\ turn.saved[1].topic = Theme /\ turn.saved[1].score = 1
    /\ DictGet(state, K_current_test) = PyNone

\* the classifier sent the turn to the examiner
ExamTurn == Called /\ ret[2].classified # <<>> /\ ret[2].classified[1] = 2

\* the examiner turn asked for an exam on topic and took over what came back
Examined(topic) ==
    \E r \in run_examiner(topic) :
        /\ ret[2].answer = <<"exam", <<Instructions, r[1]>> >>
        /\ ret[2].calls = <<"run_moderator", "run_examiner">>
        /\ DictGet(ret[2].state, K_current_test) = r[2]
        /\ DictGet(ret[2].state, K_last_topic) = r[3]
        /\ DictGet(ret[2].state, K_tutor_history) = DictGet(CallState, K_tutor_history)
        /\ DictGet(ret[2].state, K_problem_solver) = DictGet(CallState, K_problem_solver)

\* C11 as stated: on an examiner turn the exam is generated for the pre-turn
\* last_topic if it was set, otherwise for the input; after the turn current_test is
\* the parsed answer key, last_topic is the parser's topic label, and the reply is
\* the fixed instructions followed by the question block.
C11_Original ==
    ExamTurn =>
        LET pre == DictGet(CallState, K_last_topic)
        IN  Examined(IF pre # PyNone THEN pre ELSE PyStr(CallRequest))

\* C11 amended: on an examiner turn the exam is generated for the input when the
\* classifier signalled a topic change or the pre-turn last_topic was unset, and for
\* the pre-turn last_topic otherwise; after the turn current_test is the parsed
\* answer key, last_topic is the parser's topic label, and the reply is the fixed
\* instructions followed by the question block.
C11_ExaminerTurn ==
    ExamTurn =>
        LET pre == DictGet(CallState, K_last_topic)
        IN  Examined(IF ret[2].classified[2] = 1 \/ pre = PyNone
                     THEN PyStr(CallRequest) ELSE pre)

\* C11 witness: an examiner turn with a topic change on a dialog whose last_topic
\* was set; the questions are about the input and last_topic is the parser's label.
C11_Witness ==
    /\ ExamTurn /\ ret[2].classified[2] = 1
    /\ DictGet(CallState, K_last_topic) = Theme
    /\ CallRequest = T_answers
    /\ ret[2].answer = <<"exam", <<Instructions, <<"questions", PyStr(T_answers), Key_B>> >> >>
    /\ DictGet(ret[2].state, K_current_test) = Key_B
    /\ DictGet(ret[2].state, K_last_topic) = Theme

\* an examiner turn without a topic change on a dialog whose last_topic was set:
\* the questions are about that topic
C11_WitnessKept ==
    /\ ExamTurn /\ ret[2].classified[2] = 0
    /\ DictGet(CallState, K_last_topic) = Theme
    /\ ret[2].answer = <<"exam", <<Instructions, <<"questions", Theme, Key_ABC>> >> >>

\* the turns that have ended with an answer
Turns == {i \in 1..Len(requests) : requests[i].pc = "done"}

\* the states the router can return for the message of turn i on the state st
RouterStates(i, st) ==
    { json_roundtrip(o.state) : o \in process_user_message(requests[i].message, st, <<>>) }

\* C12: the turns of a dialog are serialized: the state a /chat turn writes back is
\* what the router makes of the state stored when it writes, so no other turn's
\* update is lost, with or without an uploaded file.
C12_Serialized ==
    \A i \in Turns : requests[i].written \in RouterStates(i, requests[i].overwrote)

\* the dialog, its messages and the test results are what they were before the step
\* in which request i failed
FailsIn(i) ==
    /\ requests'[i].pc = "failed"
    /\ i > Len(requests) \/ requests[i].pc # "failed"

\* C13: a /chat turn in which the classifier, an agent or the storage fails leaves
\* the stored DialogState, the stored messages and the test results as they were
\* before the turn, and records no assistant answer.
C13_FailsAtomically ==
    [][ \A i \in 1..Len(requests') :
          FailsIn(i) => /\ dialogs' = dialogs
                        /\ dialog_messages' = dialog_messages
                        /\ results' = results ]_vars

\* request i takes a step
Steps(i) == i > Len(requests) \/ requests'[i] # requests[i]

\* C14: a /chat turn on one dialog changes neither the stored DialogState nor the
\* messages of any other dialog, however the turns are interleaved.
C14_Independent ==
    [][ \A i \in 1..Len(requests') :
          Steps(i) =>
            \A d \in 1..Len(dialogs) :
                dialogs[d].id # requests'[i].dialog_id =>
                    /\ get_dialog(dialogs', dialogs[d].id) = dialogs[d]
                    /\ get_dialog_messages(dialog_messages', dialogs[d].id)
                         = get_dialog_messages(dialog_messages, dialogs[d].id) ]_vars

\* C14 witness: a turn on each of two dialogs has stored a state and an answer, the
\* second while the first awaited its uploaded file, and the two states differ.
C14_Witness ==
    /\ Len(requests) = 2
    /\ requests[1].pc = "done" /\ requests[1].upload /\ requests[1].dialog_id = 1
    /\ requests[2].pc = "done" /\ requests[2].dialog_id = 2
    /\ requests[1].overwrote = requests[1].read
    /\ get_dialog(dialogs, 1).state = requests[1].written
    /\ get_dialog(dialogs, 2).state = requests[2].written
    /\ requests[1].written # requests[2].written
    /\ Len(get_dialog_messages(dialog_messages, 1)) = 3
    /\ Len(get_dialog_messages(dialog_messages, 2)) = 3
    /\ dialog_messages[Len(dialog_messages)].dialog_id = 1

\* verify_telegram_init_data has been called on the payload
Verified == ret[1] = "verified"
\* the fields the payload parses to, and the hash it supplies (None if it has none)
Fields == parsed_fields(InitData(arg.fields))
SuppliedHash == DictGetOrNone(Fields, K_hash)
\* the hex HMAC-SHA256, keyed by the SHA-256 of the bot token, of the check string
\* of the fields other than hash
ExpectedHash == PyStr(hexdigest(BotToken[2], data_check_string(InitData(arg.fields))))
\* the exceptions raised before the user field is looked at
RaisedUnparsed ==
    { HTTPException(500, "no bot token"), HTTPException(400, "empty init data"),
      HTTPException(400, "no hash"), HTTPException(403, "bad signature") }

\* C15: verify_telegram_init_data rejects every payload without a hash field or with
\* an empty one, returns a user only if the supplied hash is the hex HMAC-SHA256,
\* keyed by the SHA-256 of the bot token, of the check string of the other fields
\* (the sorted key=value lines), and neither parses nor returns the user field of a
\* payload whose signature does not match.
C15_SignatureChecked ==
    Verified =>
        /\ ~Truthy(SuppliedHash) => IsRaised(ret[2].user)
        /\ ~IsRaised(ret[2].user) => (arg.token = BotToken /\ SuppliedHash = ExpectedHash)
        /\ SuppliedHash # ExpectedHash => ret[2].user \in RaisedUnparsed
        /\ arg.fields = <<F_user_7, F_auth_date_1>> =>
              data_check_string(InitData(arg.fields)) =
                 <<"a", "u", "t", "h", "_", "d", "a", "t", "e", "=", "1", "\n",
                   "u", "s", "e", "r", "=", "{", "\"", "i", "d", "\"", ":", "7", "}">>

\* C15 witness: a payload with the issued hash was accepted and its user returned,
\* and the same fields with a wrong hash are among the payloads.
C15_Witness ==
    /\ Verified
    /\ arg.fields = <<F_user_7, F_hash_of(<<F_user_7, F_auth_date_1>>), F_auth_date_1>>
    /\ ret[2].user = PyDict(<< <<K_id, PyInt(7)>> >>)
    /\ Inserted(<<F_user_7, F_auth_date_1>>, F_hash_wrong, 1) \in Payloads

\* C15, the rejecting case: a payload with a user that is no JSON and a wrong hash
\* was rejected for its signature.
C15_WitnessRejected ==
    /\ Verified /\ arg.token = BotToken
    /\ arg.fields = <<F_user_bad, F_hash_wrong>>
    /\ ret[2].user = HTTPException(403, "bad signature")

\* two fields of the payload have been swapped and the result verified
Swapped == ret2[1] = "swapped"
\* no key occurs twice among the fields of the payload
DistinctNames ==
    \A i, j \in 1..Len(arg.fields) :
        FieldName(arg.fields[i]) = FieldName(arg.fields[j]) => i = j
\* the swap left the computed hash and the outcome as they were
SameVerification ==
    /\ ret2[2].verification.calculated = ret[2].calculated
    /\ ret2[2].verification.user = ret[2].user

\* C16 as stated: swapping any two fields of the payload changes neither the hash
\* verify_telegram_init_data computes nor its outcome, for every payload, also one
\* in which a key occurs more than once.
C16_Original == Swapped => SameVerification

\* C16 amended: swapping any two fields of a payload in which no key occurs more
\* than once changes neither the hash verify_telegram_init_data computes nor its
\* outcome.
C16_OrderIndependent == (Swapped /\ DistinctNames) => SameVerification

\* C16 witness: the hash field and the user field of an accepted payload of three
\* fields were swapped and the payload was accepted again.
C16_Witness ==
    /\ Swapped /\ DistinctNames /\ Len(arg.fields) = 3
    /\ ~IsRaised(ret[2].user)
    /\ FieldName(arg.fields[ret2[2].i]) = K_hash[2]
    /\ FieldName(arg.fields[ret2[2].j]) = K_user[2]
    /\ ~IsRaised(ret2[2].verification.user)

\* the value of a field has been changed and the result verified
Tampered == ret2[1] = "tampered"
\* the field whose value was changed, before the change and after it
TamperedField == parse_qsl(arg.fields[ret2[2].i])[1]
TamperedValue == PyStr(unquote(plus_to_space(ret2[2].value)))
\* the field is the last of the payload with its key
LastOfName ==
    \A j \in (ret2[2].i + 1)..Len(arg.fields) :
        FieldName(arg.fields[j]) # FieldName(arg.fields[ret2[2].i])

\* C17 as stated: changing the value of any field other than hash of an accepted
\* payload, the hash left as it is, makes verify_telegram_init_data reject it.
C17_Original ==
    (Tampered /\ ~IsRaised(ret[2].user) /\ TamperedField[1] # K_hash
              /\ TamperedValue # TamperedField[2]) =>
        IsRaised(ret2[2].verification.user)

\* C17 amended: changing the value of a field other than hash of an accepted
\* payload, the hash left as it is, makes verify_telegram_init_data reject it,
\* provided no later field of the payload has the same key.
C17_TamperRejected ==
    (Tampered /\ ~IsRaised(ret[2].user) /\ TamperedField[1] # K_hash
              /\ TamperedValue # TamperedField[2] /\ LastOfName) =>
        ret2[2].verification.user = HTTPException(403, "bad signature")

\* C17 witness: the auth_date of an accepted payload was changed from 1 to 9 and
\* the payload was rejected for its signature.
C17_Witness ==
    /\ Tampered /\ ~IsRaised(ret[2].user)
    /\ arg.fields[ret2[2].i] = F_auth_date_1 /\ ret2[2].value = <<"9">>
    /\ LastOfName
    /\ ret2[2].verification.user = HTTPException(403, "bad signature")

\* the payload came in the header of a request, or as the init data of a session request
Requested == ret2[1] = "request"
Sessioned == ret2[1] = "session"

\* C18: a request that presents init data with a missing hash, a mismatching
\* signature or a missing or invalid user payload is rejected and never handled as
\* a request without init data, and a session request whose verified user payload
\* has no id is rejected, not bound to a dialog.
C18_NoDowngrade ==
    /\ (Requested /\ arg.fields # <<>> /\ IsRaised(ret[2].user)) =>
          IsRaised(ret2[2])
    /\ (Requested /\ arg.fields # <<>> /\ ~IsRaised(ret[2].user)
                  /\ ~(IsDict(ret[2].user) /\ DictHas(ret[2].user, K_id))) =>
          ret2[2] # PyNone
    /\ (Sessioned /\ ~IsRaised(ret[2].user)
                  /\ ~(IsDict(ret[2].user) /\ DictHas(ret[2].user, K_id))) =>
          IsRaised(ret2[2])

\* the session requests that were answered with a dialog
Bound == { i \in 1..Len(requests) : requests[i].pc = "done" }

\* the dialogs bound to the user id
OwnedBy(user_id) ==
    { i \in 1..Len(dialogs) : dialogs[i].owner = <<"telegram", user_id[2]>> }

\* C19: successive telegram_session calls for the same external user id are
\* answered with the same dialog, a dialog is created only for the first of
\* them, and that dialog is the one dialog bound to the user id
C19_Idempotent ==
    \A i \in Bound :
        /\ \A j \in Bound :
              (i < j /\ requests[i].user_id = requests[j].user_id) =>
                  /\ requests[j].dialog_id = requests[i].dialog_id
                  /\ ~requests[j].created
        /\ OwnedBy(requests[i].user_id) =
              { d \in 1..Len(dialogs) : dialogs[d].id = requests[i].dialog_id }

\* three calls after a dialog of nobody was created: two for one user, with two
\* payloads, the first of which created the dialog, and between them a call for
\* another user, which created another dialog
C19_Witness ==
    /\ Len(requests) = 3
    /\ Bound = {1, 2, 3}
    /\ requests[1].user_id = requests[3].user_id
    /\ requests[1].init_data # requests[3].init_data
    /\ requests[2].user_id # requests[1].user_id
    /\ requests[1].created /\ ~requests[3].created
    /\ requests[1].dialog_id > 2
    /\ requests[2].created
    /\ requests[3].dialog_id = requests[1].dialog_id

\* C20: the percent stored with every test result is floor(score / total * 100)
\* when total > 0 and 0 otherwise
C20_Floor ==
    \A i \in 1..Len(results) :
        results[i].percent = IF results[i].total > 0
                             THEN (results[i].score * 100) \div results[i].total
                             ELSE 0

\* C21: test_results is append-only: no step of a turn or of the store removes
\* or changes a row once written
C21_AppendOnly ==
    [][ /\ Len(results') >= Len(results)
        /\ \A i \in 1..Len(results) : results'[i] = results[i] ]_vars

\* two results of one topic are stored and the dialog they were written in is deleted
C21_Witness ==
    /\ Len(results) = 2
    /\ results[1].topic = results[2].topic
    /\ results[1].score # results[2].score
    /\ ~HasDialog(dialogs, 1)

\* the call graded a submission
CallGraded == Called /\ Occurs(ret[2].calls, "run_analyser")

\* the key indices for which the submission has a chunk of the index followed
\* by the expected letter in either case
RightAnswers(key, toks) ==
    { i \in 1..Len(key[2]) :
        \E t \in 1..Len(toks) :
            /\ Len(toks[t]) = Len(str(key[2][i][1])) + 1
            /\ SubSeq(toks[t], 1, Len(toks[t]) - 1) = str(key[2][i][1])
            /\ upper(<<toks[t][Len(toks[t])]>>) = upper(key[2][i][2][2]) }

\* C22: the total saved is the number of entries of the answer key, the score is
\* the number of key indices the submission answers with the expected letter in
\* either case, chunks that do not parse or name no key index count for nothing,
\* so 0 <= score <= total; the key {1:A, 2:B, 3:C} with "1a 2x 4c" gives 1 of 3, 33%
C22_Scoring ==
    CallGraded =>
        LET key == DictGet(CallState, K_current_test)
            row == ret[2].saved[1]
        IN  /\ row.total = Len(key[2])
            /\ row.score = Cardinality(RightAnswers(key, split(CallRequest)))
            /\ 0 <= row.score /\ row.score <= row.total
            /\ (key = Key_ABC /\ CallRequest = T_answers) =>
                    (row.score = 1 /\ row.total = 3 /\ row.percent = 33)

\* the key {1:A, 2:B, 3:C} was graded against "1a 2x 4c"
C22_Witness ==
    /\ CallGraded
    /\ DictGet(CallState, K_current_test) = Key_ABC
    /\ CallRequest = T_answers
    /\ ret[2].saved[1].score = 1

\* a submission without any chunk that parses was graded 0 of 1
C22_WitnessUnparsed ==
    /\ CallGraded
    /\ Len(DictGet(CallState, K_current_test)[2]) = 1
    /\ CallRequest \in yes_words
    /\ ret[2].saved[1].score = 0 /\ ret[2].saved[1].total = 1

\* the problem_solver sub-state of a state and its fields
SolverOf(st) == DictGet(st, K_problem_solver)
ActiveIn(st) == Truthy(DictGet(SolverOf(st), K_active))
StepIn(st) == DictGet(SolverOf(st), K_current_step)[2]
StepsIn(st) == DictGet(SolverOf(st), K_steps)[2]

\* the turn started a walkthrough; the turn continued one with an affirmative reply
Started == Occurs(turn'.calls, "start_problem_solver")
Affirmed ==
    /\ turn'.calls = <<"continue_problem_solver">>
    /\ lower(strip(turn'.user_text)) \in yes_words

\* C23: a start leaves the walkthrough active at current_step 0; an affirmative
\* continuation at step k of n steps leaves it active at step k + 1 < n, or, when
\* it is the n-th since the start (k + 1 = n), inactive with a completion reply
C23_Walkthrough ==
    [][ /\ Started => /\ ActiveIn(state')
                      /\ StepIn(state') = 0
                      /\ Len(StepsIn(state')) >= 1
        /\ Affirmed =>
              /\ StepsIn(state') = StepsIn(state)
              /\ StepIn(state') = StepIn(state) + 1
              /\ IF StepIn(state) + 1 < Len(StepsIn(state))
                 THEN ActiveIn(state')
                 ELSE ~ActiveIn(state') /\ turn'.answer = <<"solved", 0>>
        /\ ActiveIn(state') =>
              (0 <= StepIn(state') /\ StepIn(state') < Len(StepsIn(state'))) ]_vars

\* the third affirmative reply to a walkthrough of three steps has ended it
C23_Witness ==
    /\ turn.calls = <<"continue_problem_solver">>
    /\ turn.user_text = T_yes
    /\ turn.answer = <<"solved", 0>>
    /\ Len(StepsIn(state)) = 3
    /\ StepIn(state) = 3
    /\ ~ActiveIn(state)

\* the second affirmative reply to a walkthrough of three steps has left it active
C23_WitnessActive ==
    /\ turn.calls = <<"continue_problem_solver">>
    /\ Len(StepsIn(state)) = 3
    /\ StepIn(state) = 2
    /\ ActiveIn(state)

\* the call continued a walkthrough with a negative reply
Denied == Called /\ Continued /\ lower(CallRequest) \in no_words

\* C24: a negative reply to an active walkthrough never advances current_step
C24_NoAdvance == Denied => StepIn(ret[2].state) <= StepIn(CallState)

\* a negative reply at step 1 was answered with the step again
C24_Witness ==
    /\ Denied
    /\ StepIn(CallState) = 1
    /\ StepIn(ret[2].state) = 1
    /\ ActiveIn(ret[2].state)

\* a negative reply at step 0 ended the walkthrough
C24_WitnessStopped ==
    /\ Denied
    /\ StepIn(CallState) = 0
    /\ StepIn(ret[2].state) = 0
    /\ ~ActiveIn(ret[2].state)

\* the OCR service failed on the file of the request, or recognized no text in it
OcrFailed(r) == r.ocr # PyNone /\ (IsRaised(r.ocr) \/ strip(r.ocr[2]) = <<>>)

\* C25: when the OCR of an uploaded file fails or recognizes no text, the request
\* is answered with an error, the router is not called, and no message, state or
\* test result is stored
C25_OcrFailure ==
    [][ \A i \in 1..Len(requests) :
          (requests[i].pc = "ocr" /\ requests'[i].pc # "ocr" /\ OcrFailed(requests'[i])) =>
              /\ requests'[i].pc = "rejected"
              /\ IsRaised(requests'[i].answer)
              /\ requests'[i].ocr # Raised("ValueError") => requests'[i].answer[2][1] = 502
              /\ requests'[i].calls = <<>>
              /\ requests'[i].written = PyNone
              /\ dialogs' = dialogs
              /\ dialog_messages' = dialog_messages
              /\ results' = results ]_vars

\* the OCR service failed on the file of a request, which was answered with an
\* error while another turn on the dialog had stored its messages
C25_Witness ==
    \E i \in 1..Len(requests) :
        /\ requests[i].upload
        /\ IsRaised(requests[i].ocr)
        /\ requests[i].pc = "rejected"
        /\ \E j \in 1..Len(requests) :
              /\ requests[j].pc = "done"
              /\ requests[j].dialog_id = requests[i].dialog_id
              /\ requests[j].order < requests[i].order

\* no text was recognized in the file of a request, which was answered with an error
C25_WitnessEmpty ==
    \E i \in 1..Len(requests) :
        /\ requests[i].upload
        /\ requests[i].ocr = PyStr(<<" ", "\n">>)
        /\ requests[i].pc = "rejected"

\* C26: a turn on an active walkthrough whose input is neither a yes/no word nor
\* a progress command is classified and abandons the walkthrough: active is false
\* after the turn, topic and steps are as they were
C26_Abandoned ==
    (Called /\ CallActive /\ ~CallIsYesNo /\ ~CallIsProgress /\ CallRequest # <<>>) =>
        /\ Classified
        /\ ~ActiveIn(ret[2].state)
        /\ DictGet(SolverOf(ret[2].state), K_topic) = DictGet(SolverOf(CallState), K_topic)
        /\ StepsIn(ret[2].state) = StepsIn(CallState)

\* the last_topic the selected branch starts from: the trimmed input when the
\* classifier signalled a topic change, the last_topic of before the turn otherwise
BranchTopic ==
    IF ret[2].classified[2] = 1 THEN PyStr(CallRequest) ELSE DictGet(CallState, K_last_topic)

\* C27: on a classified turn the selected branch runs with last_topic overwritten
\* by the trimmed input if the topic-changed signal is true and with last_topic
\* untouched if it is false: the examiner generates the exam for it (for the
\* input when it is unset), the analyser saves the result under it, and the other
\* branches return it
C27_TopicChange ==
    (Called /\ Classified) =>
        IF ret[2].classified[1] = 2
        THEN Examined(IF BranchTopic = PyNone THEN PyStr(CallRequest) ELSE BranchTopic)
        ELSE /\ DictGet(ret[2].state, K_last_topic) = BranchTopic
             /\ ret[2].saved # <<>> => ret[2].saved[1].topic = BranchTopic

\* a grading turn with a topic change on a dialog whose last_topic was set: the
\* result is saved under the input
C27_Witness ==
    /\ Called /\ Classified
    /\ ret[2].classified = <<3, 1>>
    /\ DictGet(CallState, K_last_topic) = Theme
    /\ CallRequest = T_answers
    /\ ret[2].saved # <<>>
    /\ ret[2].saved[1].topic = PyStr(T_answers)
    /\ DictGet(ret[2].state, K_last_topic) = PyStr(T_answers)

\* a tutor turn without a topic change: last_topic is as it was
C27_WitnessKept ==
    /\ Called /\ Classified
    /\ ret[2].classified = <<1, 0>>
    /\ DictGet(CallState, K_last_topic) = Theme
    /\ DictGet(ret[2].state, K_last_topic) = Theme

\* the turn continued a walkthrough
Resumed == Occurs(turn'.calls, "continue_problem_solver")

\* C28: a turn that neither continues a walkthrough nor starts one leaves the
\* problem_solver sub-state as it was, and a yes/no reply to a state whose
\* walkthrough is active is a continuation whatever the turns before it were
C28_SolverFrame ==
    [][ /\ (turn'.called /\ ~Resumed /\ ~Started) => SolverOf(state') = SolverOf(state)
        /\ (ActiveIn(state) /\ turn'.user_text = T_yes) => (Resumed /\ Affirmed) ]_vars

\* a tutor turn in the middle of a walkthrough has left it active at its step
C28_Witness ==
    /\ Occurs(turn.calls, "run_tutor")
    /\ ActiveIn(state)
    /\ StepIn(state) = 1
    /\ Len(StepsIn(state)) = 3

\* a grading turn has left the active walkthrough alone
C28_WitnessGraded ==
    /\ Occurs(turn.calls, "save_test_result")
    /\ ActiveIn(state)
    /\ Len(StepsIn(state)) >= 2

\* the state a dialog holds once st is stored in it and it is loaded again:
\* update_dialog_state, get_dialog, normalize_state (web_app.py:923, 891-901)
Reloaded(st) ==
    LET ds == create_dialog(<<>>, 0, create_initial_state)
    IN  normalize_state(get_dialog(update_dialog_state(ds, 1, st), 1).state)

\* C29: a state process_user_message returns is equal to itself stored with
\* update_dialog_state and loaded with get_dialog and normalize_state; the integer
\* question indices of current_test come back as integers
C29_RoundTrip ==
    (Called /\ ~IsRaised(ret[2].answer)) => Reloaded(ret[2].state) = ret[2].state

\* a turn returned an outstanding exam with integer indices, which are stored as
\* strings and loaded as integers
C29_Witness ==
    /\ Called /\ ~IsRaised(ret[2].answer)
    /\ DictGet(ret[2].state, K_current_test) = Key_ABC
    /\ DictGet(json_roundtrip(ret[2].state), K_current_test) # Key_ABC
    /\ DictGet(Reloaded(ret[2].state), K_current_test) = Key_ABC

\* an examiner turn installed the answer key that is stored and loaded
C29_WitnessExam ==
    /\ Called /\ Classified
    /\ ret[2].classified[1] = 2
    /\ DictGet(ret[2].state, K_current_test) = Key_B
    /\ Reloaded(ret[2].state) = ret[2].state

\* request i wrote a TestResult; request k is an examiner turn that installed a
\* new current_test in the dialog of request i
TestGraded(i) == requests[i].saved # <<>>
Installed(k, i) ==
    /\ requests[k].dialog_id = requests[i].dialog_id
    /\ Occurs(requests[k].calls, "run_examiner")
    /\ requests[k].written # PyNone

\* C30: of two turns on one dialog that each wrote a TestResult, an examiner turn
\* that installed a new current_test ended after the first and before the second
C30_GradedOnce ==
    \A i, j \in 1..Len(requests) :
        (/\ TestGraded(i) /\ TestGraded(j)
         /\ requests[i].dialog_id = requests[j].dialog_id
         /\ requests[i].order < requests[j].order) =>
            \E k \in 1..Len(requests) :
                /\ Installed(k, i)
                /\ requests[i].order < requests[k].order
                /\ requests[k].order < requests[j].order

\* the request the step received, the user its header is valid for and the
\* dialog bound to that user
Received == Len(requests') = Len(requests) + 1
Request == requests'[Len(requests')]
UserOfHeader == [h \in AccessHeaders |-> get_telegram_user_from_request(BotToken, h)]
HeaderUser == UserOfHeader[Request.header]
ForUser == Received /\ ~IsRaised(HeaderUser) /\ HeaderUser # PyNone
OwnDialog ==
    /\ HasOwnerDialog(dialogs, "telegram", HeaderUser[2])
    /\ get_dialog_by_owner(dialogs, "telegram", HeaderUser[2]).id = Request.dialog_id
NothingStored == UNCHANGED <<dialogs, dialog_messages, results>>

\* C31 as stated: a request with valid init data for user U succeeds only on the
\* dialog bound to (telegram, U); for any other dialog id it is rejected with a
\* forbidden error before anything is read out or written
C31_Original ==
    [][ ForUser =>
          /\ Request.pc = "done" => OwnDialog
          /\ ~OwnDialog => /\ Request.pc = "rejected"
                           /\ Request.answer = HTTPException(403, "no access to this dialog")
                           /\ NothingStored ]_vars

\* C31: a request with valid init data for user U succeeds only on the dialog
\* bound to (telegram, U); for any other dialog id it is rejected before anything
\* is read out or written: as a bad request when /chat carries neither message
\* nor file, else as not found when no dialog has the id, else as forbidden
C31_OwnerScoped ==
    [][ ForUser =>
          /\ Request.pc = "done" => OwnDialog
          /\ ~OwnDialog =>
                /\ Request.pc = "rejected"
                /\ IsRaised(Request.answer)
                /\ Request.answer[2][1] =
                      IF Request.kind = "chat" /\ Request.message = <<>> THEN 400
                      ELSE IF ~HasDialog(dialogs, Request.dialog_id) THEN 404
                      ELSE 403
                /\ NothingStored ]_vars

\* user 7 was refused the default dialog and user 8, who has no dialog, theirs
C31_Witness ==
    /\ Len(requests) = 2
    /\ requests[1].kind = "chat"
    /\ requests[1].header = PyStr(InitData(Signed(<<F_user_7>>)))
    /\ requests[1].dialog_id = 1
    /\ requests[1].message = T_answers
    /\ requests[1].answer = HTTPException(403, "no access to this dialog")
    /\ requests[2].kind = "messages"
    /\ requests[2].header = PyStr(InitData(Signed(<<F_user_8>>)))
    /\ requests[2].dialog_id = 2
    /\ requests[2].answer = HTTPException(403, "no access to this dialog")

\* user 7 chatted on the dialog bound to them and read its messages
C31_WitnessOwn ==
    /\ Len(requests) = 2
    /\ requests[1].kind = "chat"
    /\ requests[1].header = PyStr(InitData(Signed(<<F_user_7>>)))
    /\ requests[1].dialog_id = 2
    /\ requests[1].pc = "done"
    /\ requests[2].kind = "messages"
    /\ requests[2].header = PyStr(InitData(Signed(<<F_user_7>>)))
    /\ requests[2].pc = "done"
    /\ Len(requests[2].answer[2]) = 3

\* the dialogs bound to a user, and the session requests of a user
BoundTo(user_id) == {i \in 1..Len(dialogs) : dialogs[i].owner = <<"telegram", user_id>>}
SessionsOf(user_id) == {i \in 1..Len(requests) : requests[i].user_id = user_id}

\* C32: under any interleaving of the session requests of one user at most one
\* dialog is bound to the user, at most one of the requests creates a dialog,
\* and all of them are answered with the same dialog id
C32_OneDialog ==
    \A user_id \in SessionUsers :
        /\ Cardinality(BoundTo(user_id)) <= 1
        /\ Cardinality({i \in SessionsOf(user_id) : requests[i].created}) <= 1
        /\ \A i, j \in SessionsOf(user_id) :
              (requests[i].pc = "done" /\ requests[j].pc = "done") =>
                  requests[i].dialog_id = requests[j].dialog_id

\* no delete request is between its delete_dialog and its ensure_default_dialog
Settled == \A i \in 1..Len(requests) : requests[i].pc # "ensure"

\* the dialog has its greeting as its only message
GreetedIn(msgs, dialog_id) ==
    get_dialog_messages(msgs, dialog_id) =
        <<[dialog_id |-> dialog_id, role |-> "assistant", content |-> GREETING_TEXT]>>

TurnRan(i) ==
    /\ requests[i].pc = "ocr"
    /\ requests'[i].pc # "ocr"
    /\ ~OcrFailed(requests'[i])

\* C34: every stored message is a message of a dialog that exists; a dialog
\* that is deleted takes all its messages with it; and a turn whose dialog no
\* longer exists fails at its first message with nothing stored
C34_OwnedMessages ==
    /\ [](\A k \in 1..Len(dialog_messages) : HasDialog(dialogs, dialog_messages[k].dialog_id))
    /\ [][ /\ \A d \in 1..sqlite_sequence :
                (HasDialog(dialogs, d) /\ ~HasDialog(dialogs', d)) =>
                    /\ get_dialog_messages(dialog_messages, d) # <<>>
                    /\ get_dialog_messages(dialog_messages', d) = <<>>
           /\ \A i \in 1..Len(requests) :
                (TurnRan(i) /\ ~HasDialog(dialogs, requests[i].dialog_id)) =>
                    /\ requests'[i].pc = "failed"
                    /\ requests'[i].calls = <<>>
                    /\ UNCHANGED <<dialogs, dialog_messages, results>> ]_vars

\* the dialog of a request was deleted, with its messages, while the request
\* awaited its file, and its turn has failed; the messages stored are those of
\* the new default dialog
C34_Witness ==
    /\ \E i \in 1..Len(requests) :
          /\ requests[i].pc = "failed"
          /\ requests[i].ocr = PyStr(OcrText)
          /\ requests[i].dialog_id = 1
    /\ ~HasDialog(dialogs, 1)
    /\ HasDialog(dialogs, 2)
    /\ get_dialog_messages(dialog_messages, 1) = <<>>
    /\ GreetedIn(dialog_messages, 2)
====
